---- MODULE Spec2Model ----
(***************************************************************************)
(* COMTiles: the index geometry (ComtIndex), the archive writer            *)
(* (createComTileArchive / writeIndex / writeTiles) and the archive reader *)
(* (ComtCache / IndexCache), modelled at the level of archive bytes.       *)
(***************************************************************************)
EXTENDS Integers, Sequences, FiniteSets, TLC

(* ------------------------------------------------------------------ *)
(* Program constants                                                  *)
(* ------------------------------------------------------------------ *)
NUM_BYTES_ABSOLUTE_OFFSET == 5
NUM_BYTES_TILE_SIZE == 3
INDEX_ENTRY_NUM_BYTES == 3
FRAGMENT_ENTRY_NUM_BYTES == 5
MAX_ENTRIES_LRU_CACHE == 28
METADATA_OFFSET_INDEX == 24
SUPPORTED_VERSION == 1
VERSION == 1
INITIAL_CHUNK_SIZE == 524288
MAX_TILE_SIZE == 1048575
\* the zoom below which IndexCache.get consults the pyramid buffer
PYRAMID_ZOOM_LIMIT == 8
MAGIC == <<67, 79, 77, 84>>

(* ------------------------------------------------------------------ *)
(* Bounds of the model                                                *)
(* ------------------------------------------------------------------ *)
\* largest column / row of a fragmented zoom's tileMatrixLimits
MaxCol == 2
MaxRow == 3
\* aggregationCoefficient of the fragmented zooms (fragment side 2^1)
Coeff == 1
\* metadataJson.length
MetaLen == 2
\* framing bytes zlib adds around the deflated pyramid
ZlibOverhead == 11
\* number of concurrent getTile calls on one reader
NCalls == 2

(* value standing for one byte of the metadata document / a tile payload *)
MetaByte == 123
PayloadByte == 31
(* bytes of the compressed pyramid are opaque: byte j of it is ZBase + j *)
ZBase == 256

VARIABLES
    metadata,          \* the metadata document: tileFormat and the tileMatrixSet's dialect
    tileMatrix,        \* metadata.tileMatrixSet.tileMatrix
    pyramidMaxZoom,    \* the writer's pyramidMaxZoom
    stream,            \* the records of tileProvider.getTilesInRowMajorOrder
    wpc,               \* position of createComTileArchive
    it,                \* tileIterator: number of records consumed
    file,              \* bytes of the archive, in file order
    indexPyramidBuffer,
    compLen,           \* compressedIndexPyramid.length
    dataSectionOffset,
    previousFragmentIndex,
    previousIndex,
    indexFragmentLength,
    wlog,              \* per processed record: where the writer put it
    lookup,            \* last geometry query and its answers
    header,            \* ComtCache.header
    headerLoaded,      \* ComtCache.headerLoaded: the promise and its state
    indexInit,         \* indexCache and comtIndex have been constructed
    requestCache,      \* ComtCache.requestCache: startOffset -> request
    fragmentedIndex,   \* IndexCache.fragmentedIndex, least recently used first
    calls,             \* the getTile / getTileWithBatchRequest calls
    net,               \* the range requests issued so far
    jobs,              \* promise reactions waiting to run, in order
    batched            \* requests handed to the BatchRequestDispatcher

rvars == <<header, headerLoaded, indexInit, requestCache, fragmentedIndex, calls, net,
           jobs, batched>>

wvars == <<metadata, tileMatrix, pyramidMaxZoom, stream, wpc, it, file, indexPyramidBuffer,
           compLen, dataSectionOffset, previousFragmentIndex, previousIndex,
           indexFragmentLength, wlog>>

(* ------------------------------------------------------------------ *)
(* Helpers                                                            *)
(* ------------------------------------------------------------------ *)
Limits(c0, r0, c1, r1) ==
    [minTileCol |-> c0, minTileRow |-> r0, maxTileCol |-> c1, maxTileRow |-> r1]

TM(z, coeff, limit) ==
    [zoom |-> z, aggregationCoefficient |-> coeff, tileMatrixLimits |-> limit]

\* Math.round(a / b) for a >= 0, b > 0: halves round up
MathRound(a, b) == (2 * a + b) \div (2 * b)

\* Math.floor(a / b) for a >= 0, b > 0
MathFloor(a, b) == a \div b

RECURSIVE SumSeq(_)
SumSeq(s) == IF s = <<>> THEN 0 ELSE Head(s) + SumSeq(Tail(s))

(* ------------------------------------------------------------------ *)
(* ComtIndex                                                          *)
(* ------------------------------------------------------------------ *)
inRange(x, y, tileSetLimits) ==
    /\ x >= tileSetLimits.minTileCol
    /\ x <= tileSetLimits.maxTileCol
    /\ y >= tileSetLimits.minTileRow
    /\ y <= tileSetLimits.maxTileRow

isPyramidSection(zoomTileSet, zoom) == zoomTileSet < zoom

NumTilesOfLimit(limit) ==
    (limit.maxTileCol - limit.minTileCol + 1) * (limit.maxTileRow - limit.minTileRow + 1)

\* the fragment's bounds on the dense grid, not cut to the limits
denseBounds(aggregationCoefficient, limit, x, y) ==
    LET numTilesPerFragmentSide == 2 ^ aggregationCoefficient
        minTileColFragment == MathFloor(x, numTilesPerFragmentSide) * numTilesPerFragmentSide
        minTileRowFragment == MathFloor(y, numTilesPerFragmentSide) * numTilesPerFragmentSide
    IN  Limits(minTileColFragment, minTileRowFragment,
               minTileColFragment + numTilesPerFragmentSide - 1,
               minTileRowFragment + numTilesPerFragmentSide - 1)

\* calculateBounds with x and y given: the sparse fragment bounds.
\* (x || limit.minTileCol) takes the limit's minimum when x is 0.
calculateBounds(aggregationCoefficient, limit, x, y) ==
    LET numTilesPerFragmentSide == 2 ^ aggregationCoefficient
        xOr == IF x = 0 THEN limit.minTileCol ELSE x
        yOr == IF y = 0 THEN limit.minTileRow ELSE y
        minTileColFragment == MathFloor(xOr, numTilesPerFragmentSide) * numTilesPerFragmentSide
        minTileRowFragment == MathFloor(yOr, numTilesPerFragmentSide) * numTilesPerFragmentSide
        denseLimits == Limits(minTileColFragment, minTileRowFragment,
                              minTileColFragment + numTilesPerFragmentSide - 1,
                              minTileRowFragment + numTilesPerFragmentSide - 1)
    IN  Limits(IF limit.minTileCol > denseLimits.minTileCol
                  THEN limit.minTileCol ELSE denseLimits.minTileCol,
               IF limit.minTileRow > denseLimits.minTileRow
                  THEN limit.minTileRow ELSE denseLimits.minTileRow,
               IF limit.maxTileCol < denseLimits.maxTileCol
                  THEN limit.maxTileCol ELSE denseLimits.maxTileCol,
               IF limit.maxTileRow < denseLimits.maxTileRow
                  THEN limit.maxTileRow ELSE denseLimits.maxTileRow)

\* step 1 alone: the entries left of the fragment
entriesLeftOfFragment(sparseFragmentBounds, limit) ==
    (sparseFragmentBounds.minTileCol - limit.minTileCol) *
    (sparseFragmentBounds.maxTileRow - limit.minTileRow + 1)

numberOfIndexEntriesBeforeFragment(sparseFragmentBounds, limit) ==
    LET numTilesLeftBeforeFragment ==
            (sparseFragmentBounds.minTileCol - limit.minTileCol) *
            (sparseFragmentBounds.maxTileRow - limit.minTileRow + 1)
        numTilesLowBeforeFragment ==
            (limit.maxTileCol - sparseFragmentBounds.minTileCol + 1) *
            (sparseFragmentBounds.minTileRow - limit.minTileRow)
    IN  numTilesLeftBeforeFragment + numTilesLowBeforeFragment

calculateNumberFragmentsPerZoom(limit, aggregationCoefficient) ==
    LET numTilesPerFragmentSide == 2 ^ aggregationCoefficient
        minTileColFragmentIndex == MathFloor(limit.minTileCol, numTilesPerFragmentSide)
        minTileRowFragmentIndex == MathFloor(limit.minTileRow, numTilesPerFragmentSide)
        maxTileColFragmentIndex == MathFloor(limit.maxTileCol, numTilesPerFragmentSide)
        maxTileRowFragmentIndex == MathFloor(limit.maxTileRow, numTilesPerFragmentSide)
    IN  (maxTileColFragmentIndex - minTileColFragmentIndex + 1) *
        (maxTileRowFragmentIndex - minTileRowFragmentIndex + 1)

calculateNumberOfFragmentsBefore(x, y, denseFragmentsBounds, aggregationCoefficient) ==
    LET numTilesPerFragmentSide == 2 ^ aggregationCoefficient
        numFragmentsY ==
            MathFloor(y - denseFragmentsBounds.minTileRow, numTilesPerFragmentSide)
        numFragmentsX ==
            MathRound(denseFragmentsBounds.maxTileCol - denseFragmentsBounds.minTileCol,
                      numTilesPerFragmentSide)
        numFragmentsActualRow == (numFragmentsX + 1) * (numFragmentsY + 1)
        numFragmentsActualCol ==
            MathFloor(x - denseFragmentsBounds.minTileCol, numTilesPerFragmentSide)
    IN  numFragmentsActualRow + numFragmentsActualCol

\* one pass of the loop of getFragmentRangeForTile over filteredSet, from acc
RECURSIVE FragmentRangeLoop(_, _, _, _, _, _, _)
FragmentRangeLoop(filteredSet, zoom, x, y, metadataLength, pyramidLength, acc) ==
    IF filteredSet = <<>> \/ acc.throws THEN acc
    ELSE
      LET ts == Head(filteredSet)
          limit == ts.tileMatrixLimits
          next ==
            IF ts.zoom = zoom /\ ~inRange(x, y, limit)
            THEN [acc EXCEPT !.throws = TRUE]
            ELSE IF ts.zoom < zoom
            THEN LET numTilesPerZoom == NumTilesOfLimit(limit)
                     numFragmentsPerZoom ==
                        calculateNumberFragmentsPerZoom(limit, ts.aggregationCoefficient)
                 IN  [acc EXCEPT
                        !.fragmentIndex = acc.fragmentIndex + numFragmentsPerZoom,
                        !.startOffset = acc.startOffset + numTilesPerZoom * 3
                                        + numFragmentsPerZoom * 5]
            ELSE LET sparseFragmentBounds ==
                        calculateBounds(ts.aggregationCoefficient, limit, x, y)
                     numIndexEntriesBeforeFragment ==
                        numberOfIndexEntriesBeforeFragment(sparseFragmentBounds, limit)
                     numIndexEntriesInFragment == NumTilesOfLimit(sparseFragmentBounds)
                     numFragmentsBefore ==
                        calculateNumberOfFragmentsBefore(x, y, limit,
                                                         ts.aggregationCoefficient) - 1
                     start == acc.startOffset + numFragmentsBefore * 5
                              + numIndexEntriesBeforeFragment * 3
                              + metadataLength + pyramidLength
                 IN  [acc EXCEPT
                        !.startOffset = start,
                        !.endOffset = start + numIndexEntriesInFragment * 3 + 5]
      IN  FragmentRangeLoop(Tail(filteredSet), zoom, x, y, metadataLength,
                            pyramidLength, next)

getFragmentRangeForTile(zoom, x, y, metadataLength, pyramidLength) ==
    LET Keep(t) == t.aggregationCoefficient # -1 /\ t.zoom <= zoom
    IN  FragmentRangeLoop(SelectSeq(tileMatrix, Keep), zoom, x, y, metadataLength,
                          pyramidLength,
                          [throws |-> FALSE, fragmentIndex |-> 0,
                           startOffset |-> 0, endOffset |-> 0])

calculatePyramidIndexOffsetForTile(limit, aggregationCoefficient, x, y, zoom, offset) ==
    LET numRows == y - limit.minTileRow
        numCols == limit.maxTileCol - limit.minTileCol + 1
        deltaCol == x - limit.minTileCol
    IN  offset + (numRows * numCols + deltaCol) * NUM_BYTES_TILE_SIZE

calculateFragmentIndexOffsetForTile(limit, aggregationCoefficient, x, y, zoom, offset) ==
    LET sparseFragmentBounds == calculateBounds(aggregationCoefficient, limit, x, y)
        numIndexEntriesBeforeFragment ==
            numberOfIndexEntriesBeforeFragment(sparseFragmentBounds, limit)
        fullRows == (y - sparseFragmentBounds.minTileRow) *
                    (sparseFragmentBounds.maxTileCol - sparseFragmentBounds.minTileCol + 1)
        partialRow == x - sparseFragmentBounds.minTileCol
        numIndexEntries == numIndexEntriesBeforeFragment + fullRows + partialRow
    IN  offset + numIndexEntries * NUM_BYTES_TILE_SIZE

\* the reduce of calculateIndexOffsetForTile over the tile matrices with zoom <= zoom
RECURSIVE IndexOffsetReduce(_, _, _, _, _)
IndexOffsetReduce(set, zoom, x, y, acc) ==
    IF set = <<>> \/ acc.throws THEN acc
    ELSE
      LET ts == Head(set)
          limit == ts.tileMatrixLimits
          next ==
            IF ts.zoom = zoom /\ ~inRange(x, y, limit)
            THEN [acc EXCEPT !.throws = TRUE]
            ELSE IF isPyramidSection(ts.zoom, zoom)
            THEN [acc EXCEPT !.offset = acc.offset
                                + NumTilesOfLimit(limit) * NUM_BYTES_TILE_SIZE]
            ELSE IF ts.aggregationCoefficient = -1
            THEN [acc EXCEPT !.offset =
                    calculatePyramidIndexOffsetForTile(limit, ts.aggregationCoefficient,
                                                       x, y, zoom, acc.offset)]
            ELSE [acc EXCEPT !.offset =
                    calculateFragmentIndexOffsetForTile(limit, ts.aggregationCoefficient,
                                                        x, y, zoom, acc.offset)]
      IN  IndexOffsetReduce(Tail(set), zoom, x, y, next)

calculateIndexOffsetForTile(zoom, x, y) ==
    LET Keep(tm) == tm.zoom <= zoom
        r == IndexOffsetReduce(SelectSeq(tileMatrix, Keep), zoom, x, y,
                               [throws |-> FALSE, offset |-> 0])
    IN  [throws |-> r.throws, offset |-> r.offset,
         index |-> r.offset \div NUM_BYTES_TILE_SIZE]

(* ------------------------------------------------------------------ *)
(* Byte codec                                                         *)
(* ------------------------------------------------------------------ *)
\* toBytesLE(value, numBytes): the numBytes low-order bytes, least significant first
RECURSIVE ShiftRightBytes(_, _)
ShiftRightBytes(value, n) == IF n = 0 THEN value ELSE ShiftRightBytes(value \div 256, n - 1)

ToBytesLE(value, numBytes) ==
    [i \in 1..numBytes |-> ShiftRightBytes(value, i - 1) % 256]

Zeros(n) == [i \in 1..n |-> 0]

Fill(n, b) == [i \in 1..n |-> b]

\* DataView reads outside the buffer throw a RangeError
CanRead(buffer, offset, n) == offset >= 0 /\ offset + n <= Len(buffer)

\* convertUInt24LEToNumber(buffer, offset), offset counted from 0
convertUInt24LEToNumber(buffer, offset) ==
    LET off0 == buffer[offset + 1]
        off1 == buffer[offset + 2]
        off2 == buffer[offset + 3]
    IN  off2 * 65536 + off1 * 256 + off0

\* convertUInt40LEToNumber(buffer, offset): getUint32(offset + 1) * 0x100 + getUint8(offset)
convertUInt40LEToNumber(buffer, offset) ==
    LET getUint32 == buffer[offset + 2] + buffer[offset + 3] * 256
                     + buffer[offset + 4] * 65536 + buffer[offset + 5] * 16777216
    IN  getUint32 * 256 + buffer[offset + 1]

\* bytes [from, to) of a buffer, both counted from 0 (ArrayBuffer.slice)
Slice(buffer, from, to) ==
    LET a == IF from > Len(buffer) THEN Len(buffer) ELSE from
        b == IF to > Len(buffer) THEN Len(buffer) ELSE to
    IN  IF b <= a THEN <<>> ELSE SubSeq(buffer, a + 1, b)

\* buffer with the bytes of src copied in at position at (counted from 0)
CopyInto(buffer, src, at) ==
    [i \in 1..Len(buffer) |->
        IF i > at /\ i <= at + Len(src) THEN src[i - at] ELSE buffer[i]]

(* ------------------------------------------------------------------ *)
(* The tile stream: the records of all tiles of the tile matrix set   *)
(* in index order (zooms ascending; a pyramid zoom row-major; a       *)
(* fragmented zoom fragment by fragment, row-major in each fragment)  *)
(* ------------------------------------------------------------------ *)
IsFragmented(tm) == tm.aggregationCoefficient # -1

FragSide(tm) == IF IsFragmented(tm) THEN 2 ^ tm.aggregationCoefficient ELSE 1

TilesOf(tm) ==
    {[zoom |-> tm.zoom, column |-> c, row |-> r] :
        c \in tm.tileMatrixLimits.minTileCol .. tm.tileMatrixLimits.maxTileCol,
        r \in tm.tileMatrixLimits.minTileRow .. tm.tileMatrixLimits.maxTileRow}

AllTiles(tms) == UNION {TilesOf(tms[i]) : i \in 1..Len(tms)}

MatrixOfZoom(tms, z) == CHOOSE tm \in {tms[i] : i \in 1..Len(tms)} : tm.zoom = z

\* the fragment cell <<zoom, fragment row, fragment column>> of a tile
CellOf(tms, t) ==
    LET tm == MatrixOfZoom(tms, t.zoom)
    IN  IF IsFragmented(tm)
        THEN <<t.zoom, t.row \div FragSide(tm), t.column \div FragSide(tm)>>
        ELSE <<t.zoom, -1, -1>>

KeyBase == 64

CellKey(cell) == (cell[1] * KeyBase + (cell[2] + 1)) * KeyBase + (cell[3] + 1)

TileKey(tms, t) ==
    (CellKey(CellOf(tms, t)) * KeyBase + t.row) * KeyBase + t.column

\* position (from 0) of a tile in the enumeration of all tiles
RankOf(tms, t) == Cardinality({u \in AllTiles(tms) : TileKey(tms, u) < TileKey(tms, t)})

FragmentCells(tms) ==
    {CellOf(tms, t) : t \in {u \in AllTiles(tms) : IsFragmented(MatrixOfZoom(tms, u.zoom))}}

\* position (from 0) of a fragment cell among all fragment cells
FragmentOrdinal(tms, cell) ==
    Cardinality({c \in FragmentCells(tms) : CellKey(c) < CellKey(cell)})

RECURSIVE SortByKey(_, _)
SortByKey(tms, S) ==
    IF S = {} THEN <<>>
    ELSE LET m == CHOOSE t \in S : \A u \in S : TileKey(tms, t) <= TileKey(tms, u)
         IN  <<m>> \o SortByKey(tms, S \ {m})

\* the size the provider reports for the tile of rank k under a size pattern
SizeAt(pattern, k) == pattern[(k % Len(pattern)) + 1]

\* the stream over the tiles that have a record (absent: tiles without one)
StreamOf(tms, pattern, absent) ==
    LET sorted == SortByKey(tms, AllTiles(tms) \ absent)
    IN  [i \in 1..Len(sorted) |->
            LET t == sorted[i]
            IN  [zoom |-> t.zoom, column |-> t.column, row |-> t.row,
                 size |-> SizeAt(pattern, RankOf(tms, t)),
                 fragmentIndex |->
                    IF IsFragmented(MatrixOfZoom(tms, t.zoom))
                    THEN FragmentOrdinal(tms, CellOf(tms, t)) ELSE -1]]

\* calculateNumTiles(pyramidSet)
calculateNumTiles(set) ==
    SumSeq([i \in 1..Len(set) |-> NumTilesOfLimit(set[i].tileMatrixLimits)])

(* ------------------------------------------------------------------ *)
(* The archives the writer is run on                                  *)
(* ------------------------------------------------------------------ *)
PyramidLimits(z) == Limits(0, 0, IF z = 0 THEN 0 ELSE 1, 0)

LowerLimits == Limits(0, 0, 2, 1)

LimitSet ==
    {Limits(c0, r0, c1, r1) : c0 \in 0..1, r0 \in 0..1, c1 \in 0..MaxCol, r1 \in 0..MaxRow}

ValidLimit(l) == l.minTileCol <= l.maxTileCol /\ l.minTileRow <= l.maxTileRow

\* zooms 0..pmz are pyramid zooms, zooms pmz+1..pmz+n fragmented; the top
\* zoom has the limits top, a fragmented zoom below it has LowerLimits
TileMatrixSetOf(pmz, n, top) ==
    [i \in 1..(pmz + 1 + n) |->
        IF i - 1 <= pmz THEN TM(i - 1, -1, PyramidLimits(i - 1))
        ELSE IF i = pmz + 1 + n THEN TM(i - 1, Coeff, top)
        ELSE TM(i - 1, Coeff, LowerLimits)]

Profiles == {<<7, 1>>, <<1, 2>>}

\* the sizes of the tile records, by rank; the last pattern has tiles that
\* are one byte too large
Patterns == {<<1, 2, 0>>, <<0, 3>>, <<2, 1, 0, 1, MAX_TILE_SIZE + 1>>}

TopZoom(tms) == tms[Len(tms)].zoom

FragmentTiles(tms) == {t \in AllTiles(tms) : IsFragmented(MatrixOfZoom(tms, t.zoom))}

\* the sets of tiles without a record: none, one tile of the top zoom, or
\* all tiles of one fragment
AbsentChoices(tms) ==
    {{}} \cup {{t} : t \in {u \in AllTiles(tms) : u.zoom = TopZoom(tms)}}
         \cup {{t \in FragmentTiles(tms) : CellOf(tms, t) = c} : c \in FragmentCells(tms)}

NoLookup == [zoom |-> -1]

\* a property the metadata document does not have
Undefined == "undefined"

\* String.trim().toLowerCase() on the CRS names that occur
TrimLowerCase(str) ==
    CASE str = "WebMercatorQuad" -> "webmercatorquad"
      [] str = " webmercatorquad " -> "webmercatorquad"
      [] str = "WorldCRS84Quad" -> "worldcrs84quad"
      [] OTHER -> str

\* createWmqTileMatrixSet with its default orderings, tiles in pbf
WriterMetadata ==
    [tileFormat |-> "pbf", tileMatrixCRS |-> "WebMercatorQuad",
     fragmentOrdering |-> "RowMajor", tileOrdering |-> "RowMajor"]

WriterInit(tms, pmz, pattern, absent) ==
    /\ metadata = WriterMetadata
    /\ tileMatrix = tms
    /\ pyramidMaxZoom = pmz
    /\ stream = StreamOf(tms, pattern, absent)
    /\ wpc = "header"
    /\ it = 0
    /\ file = <<>>
    /\ indexPyramidBuffer = <<>>
    /\ compLen = 0
    /\ dataSectionOffset = 0
    /\ previousFragmentIndex = -1
    /\ previousIndex = 0
    /\ indexFragmentLength = 0
    /\ wlog = <<>>

NoHeader == [loaded |-> FALSE]

Throws == [kind |-> "throws", offset |-> 0, size |-> 0]

Null == [kind |-> "null", offset |-> 0, size |-> 0]

Entry(o, sz) == [kind |-> "entry", offset |-> o, size |-> sz]

NoRange == [throws |-> FALSE, fragmentIndex |-> 0, startOffset |-> 0, endOffset |-> 0]

IdleCall ==
    [pc |-> "idle", xyz |-> [z |-> 0, x |-> 0, y |-> 0], api |-> "getTile",
     cancelled |-> FALSE, error |-> "", entry |-> Null, absoluteTileOffset |-> 0,
     fragmentRange |-> NoRange, req |-> 0]

\* createSync(comtUrl): a reader without a header
ReaderInit ==
    /\ header = NoHeader
    /\ headerLoaded = [state |-> "unset", req |-> 0]
    /\ indexInit = FALSE
    /\ requestCache = {}
    /\ fragmentedIndex = <<>>
    /\ calls = [c \in 1..NCalls |-> IdleCall]
    /\ net = <<>>
    /\ jobs = <<>>
    /\ batched = <<>>

Init ==
    /\ \E p \in Profiles, top \in {l \in LimitSet : ValidLimit(l)}, pattern \in Patterns :
          LET tms == TileMatrixSetOf(p[1], p[2], top)
          IN  \E absent \in AbsentChoices(tms) : WriterInit(tms, p[1], pattern, absent)
    /\ lookup = NoLookup
    /\ ReaderInit

(* ------------------------------------------------------------------ *)
(* createComTileArchive                                               *)
(* ------------------------------------------------------------------ *)
\* writeHeader: magic, version, metadata length, two zero placeholders
writeHeader ==
    /\ wpc = "header"
    /\ file' = file \o MAGIC \o ToBytesLE(VERSION, 4) \o ToBytesLE(MetaLen, 4)
                    \o Zeros(4) \o Zeros(8)
    /\ wpc' = "metadata"
    /\ UNCHANGED <<metadata, tileMatrix, pyramidMaxZoom, stream, it, indexPyramidBuffer, compLen,
                   dataSectionOffset, previousFragmentIndex, previousIndex,
                   indexFragmentLength, wlog, lookup>>
    /\ UNCHANGED rvars

pyramidSet == LET Keep(set) == set.zoom <= pyramidMaxZoom IN SelectSeq(tileMatrix, Keep)

numIndexEntriesPyramid == calculateNumTiles(pyramidSet)

\* writeMetadata, and the start of writeIndex up to its first loop
writeMetadata ==
    /\ wpc = "metadata"
    /\ file' = file \o Fill(MetaLen, MetaByte)
    /\ indexPyramidBuffer' = Zeros(numIndexEntriesPyramid * NUM_BYTES_TILE_SIZE)
    /\ dataSectionOffset' = 0
    /\ it' = 0
    /\ wpc' = "pyramid"
    /\ UNCHANGED <<metadata, tileMatrix, pyramidMaxZoom, stream, compLen, previousFragmentIndex,
                   previousIndex, indexFragmentLength, wlog, lookup>>
    /\ UNCHANGED rvars

\* a test against what three bytes can hold
exceedsThreeBytes(tileSize) == tileSize > 16777215

validateTileSizeThrows(tileSize) == tileSize > MAX_TILE_SIZE

\* one pass of the pyramid loop of writeIndex (i = it)
WritePyramidEntry ==
    /\ wpc = "pyramid"
    /\ it < numIndexEntriesPyramid
    /\ IF it >= Len(stream)
       THEN \* tileInfo is undefined: reading its size throws
            /\ wpc' = "error"
            /\ UNCHANGED <<it, indexPyramidBuffer, dataSectionOffset, wlog>>
       ELSE LET tileInfo == stream[it + 1]
                size == tileInfo.size
            IN  /\ dataSectionOffset' = dataSectionOffset + size
                /\ IF validateTileSizeThrows(size)
                   THEN /\ wpc' = "error"
                        /\ UNCHANGED <<it, indexPyramidBuffer, wlog>>
                   ELSE /\ indexPyramidBuffer' =
                              CopyInto(indexPyramidBuffer,
                                       ToBytesLE(size, NUM_BYTES_TILE_SIZE),
                                       it * NUM_BYTES_TILE_SIZE)
                        /\ it' = it + 1
                        /\ wlog' = Append(wlog,
                              [k |-> it + 1, section |-> "pyramid",
                               dataOff |-> dataSectionOffset,
                               entryAt |-> it * NUM_BYTES_TILE_SIZE,
                               prefixAt |-> -1, padding |-> 0])
                        /\ wpc' = wpc
    /\ UNCHANGED <<metadata, tileMatrix, pyramidMaxZoom, stream, file, compLen,
                   previousFragmentIndex, previousIndex, indexFragmentLength, lookup>>
    /\ UNCHANGED rvars

\* the lengths fflate.zlibSync may return for a buffer: the framing alone
\* (a buffer that deflates to almost nothing) up to framing plus every byte
ZlibLens(buffer) == {ZlibOverhead, ZlibOverhead + Len(buffer)}

CompressedBytes(n) == [j \in 1..n |-> ZBase + j]

\* zlibSync of the pyramid buffer, its write, and the set-up of the fragment loop
CompressPyramid ==
    /\ wpc = "pyramid"
    /\ it = numIndexEntriesPyramid
    /\ \E n \in ZlibLens(indexPyramidBuffer) :
          /\ compLen' = n
          /\ file' = file \o CompressedBytes(n)
          /\ previousIndex' = n
    /\ previousFragmentIndex' = -1
    /\ indexFragmentLength' = 0
    /\ wpc' = "fragments"
    /\ UNCHANGED <<metadata, tileMatrix, pyramidMaxZoom, stream, it, indexPyramidBuffer,
                   dataSectionOffset, wlog, lookup>>
    /\ UNCHANGED rvars

paddingUpToCurrent(currentIndex, previous) == currentIndex - previous

\* the number of index slots between the previous record and the current one
padding(currentIndex, previous) == currentIndex - previous - 1

\* one pass of the fragment loop of writeIndex
WriteFragmentRecord ==
    /\ wpc = "fragments"
    /\ it < Len(stream)
    /\ LET tile == stream[it + 1]
           newFragment == tile.fragmentIndex > previousFragmentIndex
           prefix == IF newFragment
                     THEN ToBytesLE(dataSectionOffset, NUM_BYTES_ABSOLUTE_OFFSET)
                     ELSE <<>>
           current == calculateIndexOffsetForTile(tile.zoom, tile.column, tile.row)
           currentIndex == current.index
           numPadding == padding(currentIndex, previousIndex)
           pad == IF numPadding > 0 THEN Zeros(numPadding * NUM_BYTES_TILE_SIZE) ELSE <<>>
           indexEntry == ToBytesLE(tile.size, NUM_BYTES_TILE_SIZE)
       IN  IF validateTileSizeThrows(tile.size) \/ current.throws
           THEN /\ wpc' = "error"
                /\ UNCHANGED <<it, file, dataSectionOffset, previousFragmentIndex,
                               previousIndex, indexFragmentLength, wlog>>
           ELSE /\ file' = file \o prefix \o pad \o indexEntry
                /\ indexFragmentLength' = indexFragmentLength + Len(prefix) + Len(pad)
                                          + NUM_BYTES_TILE_SIZE
                /\ dataSectionOffset' = dataSectionOffset + tile.size
                /\ previousFragmentIndex' = tile.fragmentIndex
                /\ previousIndex' = currentIndex
                /\ it' = it + 1
                /\ wlog' = Append(wlog,
                      [k |-> it + 1, section |-> "fragment",
                       dataOff |-> dataSectionOffset,
                       entryAt |-> Len(file) + Len(prefix) + Len(pad),
                       prefixAt |-> IF newFragment THEN Len(file) ELSE -1,
                       padding |-> IF numPadding > 0 THEN numPadding ELSE 0])
                /\ wpc' = wpc
    /\ UNCHANGED <<metadata, tileMatrix, pyramidMaxZoom, stream, indexPyramidBuffer, compLen, lookup>>
    /\ UNCHANGED rvars

\* writeIndex returns [compressedIndexPyramid.length, indexFragmentLength];
\* writeTiles opens the stream of tiles again
FinishIndex ==
    /\ wpc = "fragments"
    /\ it = Len(stream)
    /\ it' = 0
    /\ wpc' = "tiles"
    /\ UNCHANGED <<metadata, tileMatrix, pyramidMaxZoom, stream, file, indexPyramidBuffer, compLen,
                   dataSectionOffset, previousFragmentIndex, previousIndex,
                   indexFragmentLength, wlog, lookup>>
    /\ UNCHANGED rvars

\* one pass of the loop of writeTiles: a tile of length 0 writes nothing
WriteTile ==
    /\ wpc = "tiles"
    /\ it < Len(stream)
    /\ LET tileLength == stream[it + 1].size
       IN  file' = IF tileLength > 0 THEN file \o Fill(tileLength, PayloadByte) ELSE file
    /\ wlog' = [wlog EXCEPT ![it + 1] = [@ EXCEPT !.k = it + 1] @@ [payloadAt |-> Len(file)]]
    /\ it' = it + 1
    /\ UNCHANGED <<metadata, tileMatrix, pyramidMaxZoom, stream, wpc, indexPyramidBuffer, compLen,
                   dataSectionOffset, previousFragmentIndex, previousIndex,
                   indexFragmentLength, lookup>>
    /\ UNCHANGED rvars

\* stream.end(), repo.dispose(), stream.end(), fs.open is called with its
\* callback and createComTileArchive returns: its promise is fulfilled
EndStream ==
    /\ wpc = "tiles"
    /\ it = Len(stream)
    /\ wpc' = "returned"
    /\ UNCHANGED <<metadata, tileMatrix, pyramidMaxZoom, stream, it, file, indexPyramidBuffer,
                   compLen, dataSectionOffset, previousFragmentIndex, previousIndex,
                   indexFragmentLength, wlog, lookup>>
    /\ UNCHANGED rvars

\* the callback of fs.open without an error: the two writeSync calls
PatchHeader ==
    /\ wpc = "returned"
    /\ file' = CopyInto(CopyInto(file, ToBytesLE(compLen, 4), 12),
                        ToBytesLE(indexFragmentLength, 8), 16)
    /\ wpc' = "done"
    /\ UNCHANGED <<metadata, tileMatrix, pyramidMaxZoom, stream, it, indexPyramidBuffer, compLen,
                   dataSectionOffset, previousFragmentIndex, previousIndex,
                   indexFragmentLength, wlog, lookup>>
    /\ UNCHANGED rvars

\* the callback of fs.open with an error: "Cant open file", nothing is patched
OpenFails ==
    /\ wpc = "returned"
    /\ wpc' = "unpatched"
    /\ UNCHANGED <<metadata, tileMatrix, pyramidMaxZoom, stream, it, file, indexPyramidBuffer,
                   compLen, dataSectionOffset, previousFragmentIndex, previousIndex,
                   indexFragmentLength, wlog, lookup>>
    /\ UNCHANGED rvars

Writer ==
    \/ writeHeader
    \/ writeMetadata
    \/ WritePyramidEntry
    \/ CompressPyramid
    \/ WriteFragmentRecord
    \/ FinishIndex
    \/ WriteTile
    \/ EndStream
    \/ PatchHeader
    \/ OpenFails

(* ------------------------------------------------------------------ *)
(* Geometry queries against a finished archive                        *)
(* ------------------------------------------------------------------ *)
LookupZooms == {tileMatrix[i].zoom : i \in 1..Len(tileMatrix)} \ (0..(pyramidMaxZoom - 1))

\* the reader's two questions for a tile address, with the header's lengths
Lookup ==
    /\ wpc = "done"
    /\ lookup = NoLookup
    /\ \E z \in LookupZooms, x \in 0..(MaxCol + 1), y \in 0..(MaxRow + 1) :
          lookup' = [zoom |-> z, x |-> x, y |-> y,
                     range |-> getFragmentRangeForTile(z, x, y,
                                   METADATA_OFFSET_INDEX + MetaLen, compLen),
                     index |-> calculateIndexOffsetForTile(z, x, y)]
    /\ UNCHANGED wvars
    /\ UNCHANGED rvars

(* ------------------------------------------------------------------ *)
(* IndexCache                                                         *)
(* ------------------------------------------------------------------ *)
\* the sum of the n 3-byte entries of buffer that start at base
RECURSIVE SumEntries(_, _, _)
SumEntries(buffer, base, n) ==
    IF n = 0 THEN 0
    ELSE SumEntries(buffer, base, n - 1)
         + convertUInt24LEToNumber(buffer, base + (n - 1) * INDEX_ENTRY_NUM_BYTES)

getIndexEntryFragmentSection(indexOffset, indexEntries) ==
    IF ~CanRead(indexEntries, indexOffset * INDEX_ENTRY_NUM_BYTES + 5, 3)
       \/ ~CanRead(indexEntries, 0, 5)
    THEN Throws
    ELSE Entry(convertUInt40LEToNumber(indexEntries, 0)
                  + SumEntries(indexEntries, 5, indexOffset),
               convertUInt24LEToNumber(indexEntries,
                                       indexOffset * INDEX_ENTRY_NUM_BYTES + 5))

getIndexEntryPyramidSection(indexOffset, indexEntries) ==
    IF ~CanRead(indexEntries, indexOffset * INDEX_ENTRY_NUM_BYTES, 3)
    THEN Throws
    ELSE Entry(SumEntries(indexEntries, 0, indexOffset),
               convertUInt24LEToNumber(indexEntries, indexOffset * INDEX_ENTRY_NUM_BYTES))

getIndexOffsetFragmentSection(fragmentIndex, indexOffsetForTile) ==
    fragmentIndex * FRAGMENT_ENTRY_NUM_BYTES
    + (indexOffsetForTile - 1) * INDEX_ENTRY_NUM_BYTES

\* fflate.unzlibSync: the buffer zlibSync compressed, or an error for other bytes
unzlibSync(bytes) ==
    IF bytes = CompressedBytes(compLen)
    THEN [throws |-> FALSE, data |-> indexPyramidBuffer]
    ELSE [throws |-> TRUE, data |-> <<>>]

\* LruCache: a sequence of entries, the least recently used first
LruHas(cache, key) == \E i \in 1..Len(cache) : cache[i].key = key

LruPos(cache, key) == CHOOSE i \in 1..Len(cache) : cache[i].key = key

LruWithout(cache, key) == LET Other(e) == e.key # key IN SelectSeq(cache, Other)

LruGet(cache, key) == LruWithout(cache, key) \o <<cache[LruPos(cache, key)]>>

LruPut(cache, key, value) ==
    LET added == LruWithout(cache, key) \o <<[key |-> key, value |-> value]>>
    IN  IF Len(added) > MAX_ENTRIES_LRU_CACHE THEN Tail(added) ELSE added

\* the relative position IndexCache.get hands to getIndexEntryFragmentSection
relativeFragmentOffset(z, x, y, indexOffsetForTile) == 0

\* IndexCache.get once the index offset c and the fragment range r of the tile
\* are computed: the entry, null, or an exception; cache is fragmentedIndex
\* after the call
IndexCacheGetAt(hdr, cache, z, x, y, c, r) ==
    LET indexOffset == IF z < PYRAMID_ZOOM_LIMIT THEN c.index
                       ELSE getIndexOffsetFragmentSection(r.fragmentIndex, c.index)
    IN  IF c.throws \/ r.throws THEN [res |-> Throws, cache |-> cache]
        ELSE IF indexOffset <= Len(hdr.partialIndex) - INDEX_ENTRY_NUM_BYTES
                /\ z < PYRAMID_ZOOM_LIMIT
        THEN IF unzlibSync(hdr.partialIndex).throws
             THEN [res |-> Throws, cache |-> cache]
             ELSE [res |-> getIndexEntryPyramidSection(indexOffset,
                                                       unzlibSync(hdr.partialIndex).data),
                   cache |-> cache]
        ELSE IF ~LruHas(cache, r.startOffset) THEN [res |-> Null, cache |-> cache]
        ELSE [res |-> getIndexEntryFragmentSection(
                          relativeFragmentOffset(z, x, y, c.index),
                          cache[LruPos(cache, r.startOffset)].value.indexEntries),
              cache |-> LruGet(cache, r.startOffset)]

IndexCacheGet(hdr, cache, z, x, y) ==
    IndexCacheGetAt(hdr, cache, z, x, y, calculateIndexOffsetForTile(z, x, y),
                    getFragmentRangeForTile(z, x, y, hdr.indexOffset,
                                            hdr.pyramidIndexLength))

(* ------------------------------------------------------------------ *)
(* ComtCache                                                          *)
(* ------------------------------------------------------------------ *)
ReadU32(buffer, offset) ==
    buffer[offset + 1] + buffer[offset + 2] * 256 + buffer[offset + 3] * 65536
    + buffer[offset + 4] * 16777216

SUPPORTED_ORDERING == {Undefined, "RowMajor"}

SUPPORTED_TILE_MATRIX_CRS == "WebMercatorQuad"

\* the ordering test alone
orderingUnsupported(md) ==
    ~(md.fragmentOrdering \in SUPPORTED_ORDERING /\ md.tileOrdering \in SUPPORTED_ORDERING)

\* new ComtIndex(metadata) throws
ComtIndexThrows(md) ==
    \/ ~(md.fragmentOrdering \in SUPPORTED_ORDERING /\ md.tileOrdering \in SUPPORTED_ORDERING)
    \/ /\ md.tileMatrixCRS # Undefined
       /\ TrimLowerCase(md.tileMatrixCRS) # TrimLowerCase(SUPPORTED_TILE_MATRIX_CRS)

pyramidIndexEntries(tms) ==
    LET IsPyramid(tm) == tm.aggregationCoefficient = -1
    IN  calculateNumTiles(SelectSeq(tms, IsPyramid))

\* validateMetadata throws: tile format, orderings, CRS, and the number of
\* pyramid entries against the entries the initial chunk has room for
validateMetadataThrows(md, tms, downloadedPyramidIndexEntries) ==
    \/ md.tileFormat # "pbf"
    \/ ~(md.fragmentOrdering \in SUPPORTED_ORDERING /\ md.tileOrdering \in SUPPORTED_ORDERING)
    \/ /\ md.tileMatrixCRS # Undefined
       /\ TrimLowerCase(md.tileMatrixCRS) # TrimLowerCase(SUPPORTED_TILE_MATRIX_CRS)
    \/ pyramidIndexEntries(tms) > downloadedPyramidIndexEntries

\* loadHeader after fetchHeader: the header of the archive bytes in buffer
loadHeader(buffer) ==
    IF ~CanRead(buffer, 4, 4) THEN [throws |-> TRUE]
    ELSE IF ReadU32(buffer, 4) # SUPPORTED_VERSION THEN [throws |-> TRUE]
    ELSE IF ~CanRead(buffer, 16, 4) THEN [throws |-> TRUE]
    ELSE
      LET metadataSize == ReadU32(buffer, 8)
          pyramidIndexLength == ReadU32(buffer, 12)
          fragmentIndexLength == ReadU32(buffer, 16)
          indexOffset == METADATA_OFFSET_INDEX + metadataSize
          metadataBuffer == Slice(buffer, METADATA_OFFSET_INDEX, indexOffset)
          numCompleteIndexEntries ==
              MathFloor(INITIAL_CHUNK_SIZE - indexOffset, INDEX_ENTRY_NUM_BYTES)
          endOffset == indexOffset + pyramidIndexLength
      IN  IF metadataBuffer # Fill(MetaLen, MetaByte)
          THEN [throws |-> TRUE]   \* JSON.parse fails on anything but the document
          ELSE IF validateMetadataThrows(metadata, tileMatrix, numCompleteIndexEntries)
          THEN [throws |-> TRUE]
          ELSE [throws |-> FALSE, loaded |-> TRUE,
                indexOffset |-> indexOffset,
                pyramidIndexLength |-> pyramidIndexLength,
                fragmentIndexLength |-> fragmentIndexLength,
                dataOffset |-> indexOffset + pyramidIndexLength + fragmentIndexLength,
                partialIndex |-> Slice(buffer, indexOffset, endOffset)]

\* the body of a range request bytes=first-last on the archive
RangeBody(first, last) == Slice(file, first, last + 1)

ReaderState ==
    [header |-> header, headerLoaded |-> headerLoaded, indexInit |-> indexInit,
     requestCache |-> requestCache, fragmentedIndex |-> fragmentedIndex,
     calls |-> calls, net |-> net, jobs |-> jobs, batched |-> batched]

Become(s) ==
    /\ header' = s.header
    /\ headerLoaded' = s.headerLoaded
    /\ indexInit' = s.indexInit
    /\ requestCache' = s.requestCache
    /\ fragmentedIndex' = s.fragmentedIndex
    /\ calls' = s.calls
    /\ net' = s.net
    /\ jobs' = s.jobs
    /\ batched' = s.batched
    /\ UNCHANGED wvars
    /\ UNCHANGED lookup

Throw(s, c, err) == [s EXCEPT !.calls[c].pc = "thrown", !.calls[c].error = err]

\* fetchBinaryData up to its await of fetch(): the request is on the wire, the
\* abort handle is registered with the caller's token, c waits for the result
fetchBinaryData(s, c, kind, firstBytePos, lastBytePos, token) ==
    [s EXCEPT !.net = Append(s.net,
        [kind |-> kind, first |-> firstBytePos, last |-> lastBytePos,
         state |-> "fetching", token |-> token, waiters |-> <<c>>])]

\* the end of a tile's range taken as exclusive
endExclusive(tileOffset, tileSize) == tileOffset + tileSize

\* the last byte of the range of a tile of tileSize bytes at tileOffset
lastBytePos(tileOffset, tileSize) == tileOffset + tileSize - 1

\* fetchTile once getIndexEntry has an index entry: the tile provider of
\* getTile (fetchMVT) or of getTileWithBatchRequest
fetchTile(s, c, indexEntry) ==
    IF indexEntry.kind # "entry" THEN Throw(s, c, "TypeError: indexEntry is null")
    ELSE
      LET absoluteTileOffset == s.header.dataOffset + indexEntry.offset
          s1 == [s EXCEPT !.calls[c].entry = indexEntry,
                          !.calls[c].absoluteTileOffset = absoluteTileOffset]
      IN  IF indexEntry.size = 0
          THEN [s1 EXCEPT !.calls[c].pc = "returnedEmpty"]
          ELSE IF s.calls[c].api = "getTile"
          THEN LET s2 == fetchBinaryData(s1, c, "data", absoluteTileOffset,
                                         lastBytePos(absoluteTileOffset, indexEntry.size), c)
               IN  [s2 EXCEPT !.calls[c].pc = "awaitData",
                              !.calls[c].req = Len(s2.net)]
          ELSE [s1 EXCEPT !.calls[c].pc = "awaitBatch",
                          !.batched = Append(s.batched,
                              [call |-> c,
                               startOffset |-> absoluteTileOffset,
                               endOffset |-> lastBytePos(absoluteTileOffset, indexEntry.size)])]

RequestOf(cache, key) == (CHOOSE e \in cache : e.key = key).req

\* fetchIndexEntry up to its await, for the fragment range of the tile
fetchIndexEntryOf(s, c, fragmentRange) ==
    IF fragmentRange.throws THEN Throw(s, c, "Error")
    ELSE IF ~(\E e \in s.requestCache : e.key = fragmentRange.startOffset)
    THEN [fetchBinaryData(s, c, "fragment", fragmentRange.startOffset,
                          fragmentRange.endOffset, c)
            EXCEPT !.requestCache = s.requestCache
                       \cup {[key |-> fragmentRange.startOffset, req |-> Len(s.net) + 1]},
                   !.calls[c].pc = "awaitFragmentOwner",
                   !.calls[c].fragmentRange = fragmentRange,
                   !.calls[c].req = Len(s.net) + 1]
    ELSE [s EXCEPT !.net[RequestOf(s.requestCache, fragmentRange.startOffset)].waiters =
                       Append(@, c),
                   !.calls[c].pc = "awaitFragmentShared",
                   !.calls[c].fragmentRange = fragmentRange,
                   !.calls[c].req = RequestOf(s.requestCache, fragmentRange.startOffset)]

fetchIndexEntry(s, c, z, x, y) ==
    fetchIndexEntryOf(s, c, getFragmentRangeForTile(z, x, y, s.header.indexOffset,
                                                    s.header.pyramidIndexLength))

\* getIndexEntry and fetchTile after IndexCache.get returned got
afterIndexCacheGet(s, c, z, x, tmsY, got) ==
    IF got.res.kind = "throws"
    THEN Throw([s EXCEPT !.fragmentedIndex = got.cache], c, "RangeError")
    ELSE IF got.res.kind = "null"
    THEN fetchIndexEntry([s EXCEPT !.fragmentedIndex = got.cache], c, z, x, tmsY)
    ELSE fetchTile([s EXCEPT !.fragmentedIndex = got.cache], c, got.res)

\* a limits check on the columns alone
outsideColumns(x, tmsY, limit) == x < limit.minTileCol \/ x > limit.maxTileCol

\* the limits check of getIndexEntry
outsideLimits(x, tmsY, limit) ==
    \/ x < limit.minTileCol
    \/ x > limit.maxTileCol
    \/ tmsY < limit.minTileRow
    \/ tmsY > limit.maxTileRow

\* getIndexEntry from the limits check on (the header is expected to be there)
getIndexEntryAt(s, c, z, x, tmsY) ==
    IF ~s.header.loaded THEN Throw(s, c, "TypeError: header is undefined")
    ELSE IF z + 1 > Len(tileMatrix) THEN Throw(s, c, "TypeError: tileMatrix[z] is undefined")
    ELSE IF outsideLimits(x, tmsY, tileMatrix[z + 1].tileMatrixLimits)
    THEN [s EXCEPT !.calls[c].pc = "returnedEmpty"]
    ELSE IF ~s.indexInit THEN Throw(s, c, "TypeError: indexCache is undefined")
    ELSE afterIndexCacheGet(s, c, z, x, tmsY,
                            IndexCacheGet(s.header, s.fragmentedIndex, z, x, tmsY))

getIndexEntry(s, c) ==
    getIndexEntryAt(s, c, s.calls[c].xyz.z, s.calls[c].xyz.x,
                    (2 ^ s.calls[c].xyz.z) - s.calls[c].xyz.y - 1)

\* getTile / getTileWithBatchRequest up to the first await
StartCall(s, c, xyz, api) ==
    LET s0 == [s EXCEPT !.calls[c] = [IdleCall EXCEPT !.pc = "started", !.xyz = xyz,
                                                      !.api = api]]
    IN  IF s.header.loaded THEN getIndexEntry(s0, c)
        ELSE IF s.headerLoaded.state = "unset"
        THEN LET s1 == fetchBinaryData(s0, c, "header", 0, INITIAL_CHUNK_SIZE - 1, 0)
             IN  [s1 EXCEPT !.headerLoaded = [state |-> "pending", req |-> Len(s1.net)],
                            !.calls[c].pc = "awaitHeaderFirst",
                            !.calls[c].req = Len(s1.net)]
        ELSE IF s.headerLoaded.state = "pending"
        THEN [s0 EXCEPT !.net[s.headerLoaded.req].waiters =
                            Append(s.net[s.headerLoaded.req].waiters, c),
                        !.calls[c].pc = "awaitHeader",
                        !.calls[c].req = s.headerLoaded.req]
        ELSE \* the promise is settled: the await resumes in a later job
             [s0 EXCEPT !.jobs = Append(s.jobs,
                            [call |-> c, req |-> s.headerLoaded.req,
                             ok |-> s.headerLoaded.state = "fulfilled"]),
                        !.calls[c].pc = "awaitHeader",
                        !.calls[c].req = s.headerLoaded.req]

\* the reactions of a settled promise, in the order the awaits were made
Reactions(waiters, r, ok) ==
    [i \in 1..Len(waiters) |-> [call |-> waiters[i], req |-> r, ok |-> ok]]

\* request r settles: its promise is fulfilled (ok) or rejected and the
\* reactions of its waiters are queued
SettleAs(s, r, state, ok) ==
    [s EXCEPT !.net[r].state = state,
              !.jobs = s.jobs \o Reactions(s.net[r].waiters, r, ok),
              !.headerLoaded.state =
                  IF s.net[r].kind # "header" THEN @
                  ELSE IF ok THEN "fulfilled" ELSE "rejected"]

\* the promise of fetchHeader().then(loadHeader) also rejects when loadHeader
\* throws
Settle(s, r, state) ==
    SettleAs(s, r, state,
             IF s.net[r].kind = "header"
             THEN state = "ok"
                  /\ ~loadHeader(RangeBody(s.net[r].first, s.net[r].last)).throws
             ELSE state = "ok")

\* getIndexEntry without the call of initIndex
skipInitIndex(s) == s

\* initIndex
initIndex(s) == [s EXCEPT !.indexInit = TRUE]

\* fetchIndexEntry after setIndexFragment: the entry is read from the cache
getFromFragment(s, c, got) ==
    IF got.res.kind = "throws"
    THEN Throw([s EXCEPT !.fragmentedIndex = got.cache], c, "RangeError")
    ELSE fetchTile([s EXCEPT !.fragmentedIndex = got.cache], c, got.res)

setIndexFragment(s, key, fragmentRange, indexEntries) ==
    [s EXCEPT !.fragmentedIndex =
         LruPut(s.fragmentedIndex, key,
                [fragmentRange |-> fragmentRange, indexEntries |-> indexEntries])]

getAfterSet(s, c, z, x, tmsY) ==
    getFromFragment(s, c, IndexCacheGet(s.header, s.fragmentedIndex, z, x, tmsY))

\* fetchIndexEntry without its finally block: the entry stays
keepPendingEntry(s, c) == s

\* the finally block of fetchIndexEntry: the call that made the request
\* deletes its entry
finallyDelete(s, c) ==
    IF s.calls[c].pc = "awaitFragmentOwner"
    THEN [s EXCEPT !.requestCache =
             {e \in s.requestCache : e.key # s.calls[c].fragmentRange.startOffset}]
    ELSE s

\* the part of fetchIndexEntry after its await
afterFragment(s, c, ok) ==
    IF ~ok THEN Throw(finallyDelete(s, c), c, "fetch")
    ELSE getAfterSet(
             setIndexFragment(finallyDelete(s, c),
                              s.calls[c].fragmentRange.startOffset,
                              s.calls[c].fragmentRange,
                              RangeBody(s.net[s.calls[c].req].first,
                                        s.net[s.calls[c].req].last)),
             c, s.calls[c].xyz.z, s.calls[c].xyz.x,
             (2 ^ s.calls[c].xyz.z) - s.calls[c].xyz.y - 1)

\* the continuation of call c after the await that job j resumes
Resume(s, j) ==
    LET c == j.call
        pc == s.calls[c].pc
    IN  IF pc = "awaitHeaderFirst"
        THEN IF j.ok
             THEN LET h == loadHeader(RangeBody(s.net[j.req].first, s.net[j.req].last))
                  IN  getIndexEntry(initIndex([s EXCEPT !.header = h]), c)
             ELSE Throw(s, c, "header")
        ELSE IF pc = "awaitHeader"
        THEN IF j.ok THEN getIndexEntry(s, c) ELSE Throw(s, c, "header")
        ELSE IF pc \in {"awaitFragmentOwner", "awaitFragmentShared"}
        THEN afterFragment(s, c, j.ok)
        ELSE \* awaitData: fetchMVT returns the tile
             IF j.ok THEN [s EXCEPT !.calls[c].pc = "returnedTile"]
             ELSE Throw(s, c, "fetch")

ReaderReady == wpc = "done"

\* the tile addresses asked for: the top pyramid zoom and the top zoom, with
\* rows up to one above the limits, as XYZ (y counted from the top)
RequestSet ==
    {[z |-> z, x |-> x, y |-> (2 ^ z) - 1 - ty] :
        z \in {pyramidMaxZoom, TopZoom(tileMatrix)},
        x \in 0..1,
        ty \in 0..(tileMatrix[Len(tileMatrix)].tileMatrixLimits.maxTileRow + 1)}

Quiet == jobs = <<>>

\* a caller invokes getTile or getTileWithBatchRequest
Call(c) ==
    /\ ReaderReady /\ Quiet
    /\ calls[c].pc = "idle"
    /\ \A d \in 1..(c - 1) : calls[d].pc # "idle"   \* calls are numbered as they are made
    /\ \E xyz \in RequestSet, api \in {"getTile", "getTileWithBatchRequest"} :
          Become(StartCall(ReaderState, c, xyz, api))

\* fetch() resolves with an OK response: the abort handle is unregistered and
\* the body is read (a request that starts beyond the file is not satisfiable)
Respond(r) ==
    /\ Quiet
    /\ net[r].state = "fetching"
    /\ net[r].first < Len(file)
    /\ net' = [net EXCEPT ![r].state = "body"]
    /\ UNCHANGED <<header, headerLoaded, indexInit, requestCache, fragmentedIndex, calls,
                   jobs, batched, lookup>>
    /\ UNCHANGED wvars

\* response.arrayBuffer() resolves
BodyArrives(r) ==
    /\ Quiet
    /\ net[r].state = "body"
    /\ Become(Settle(ReaderState, r, "ok"))

\* the network fails, or the response is not OK
RequestFails(r) ==
    /\ Quiet
    /\ net[r].state \in {"fetching", "body"}
    /\ Become(Settle(ReaderState, r, "failed"))

RegisteredWith(s, c) ==
    {r \in 1..Len(s.net) : s.net[r].token = c /\ s.net[r].state = "fetching"}

\* the caller cancels the token of call c while the call waits for a fragment
\* or for tile data: the registered abort handles run
CancelToken(s, c) ==
    LET s1 == [s EXCEPT !.calls[c].cancelled = TRUE]
        regs == RegisteredWith(s, c)
    IN  IF regs = {} THEN s1 ELSE Settle(s1, CHOOSE r \in regs : TRUE, "aborted")

Cancel(c) ==
    /\ Quiet
    /\ calls[c].pc \in {"awaitFragmentOwner", "awaitFragmentShared", "awaitData"}
    /\ ~calls[c].cancelled
    /\ Become(CancelToken(ReaderState, c))

\* the next promise reaction runs to its next await
RunJob ==
    /\ jobs # <<>>
    /\ Become(Resume([ReaderState EXCEPT !.jobs = Tail(jobs)], Head(jobs)))

Reader ==
    \/ \E c \in 1..NCalls : Call(c)
    \/ \E r \in 1..Len(net) : Respond(r)
    \/ \E r \in 1..Len(net) : BodyArrives(r)
    \/ \E r \in 1..Len(net) : RequestFails(r)
    \/ \E c \in 1..NCalls : Cancel(c)
    \/ RunJob

\* the archives the reader is run on
ReaderTops == {Limits(0, 0, 0, 1), Limits(0, 1, 0, 3)}

InitReader ==
    /\ \E top \in ReaderTops :
          WriterInit(TileMatrixSetOf(7, 1, top), 7, <<1, 2, 0>>, {})
    /\ lookup = NoLookup
    /\ ReaderInit

(* ------------------------------------------------------------------ *)
(* Opening an archive: ComtCache.create and new ComtIndex             *)
(* ------------------------------------------------------------------ *)
\* first four bytes of an archive: "COMT", or "COMX" of some other format
Magics == {MAGIC, <<67, 79, 77, 88>>}

Versions == {0, SUPPORTED_VERSION, 2}

Dialects ==
    [tileFormat : {"pbf", "png"},
     tileMatrixCRS : {Undefined, "WebMercatorQuad", " webmercatorquad ", "WorldCRS84Quad"},
     fragmentOrdering : {Undefined, "RowMajor", "ZOrder"},
     tileOrdering : {Undefined, "RowMajor", "ZOrder"}]

\* the largest number of 3-byte entries that has room in the initial chunk
FitTiles == MathFloor(INITIAL_CHUNK_SIZE - METADATA_OFFSET_INDEX - MetaLen, INDEX_ENTRY_NUM_BYTES)

\* one pyramid zoom with n tiles in a row
PyramidRow(n) == <<TM(18, -1, Limits(0, 0, n - 1, 0))>>

\* a 64-bit length in two 32-bit halves: high * 2^32 + low
Halves(h, l) == [high |-> h, low |-> l]

\* Buffer.writeBigUint64LE(BigInt(n)): eight bytes, little-endian
writeBigUint64LE(n) == ToBytesLE(n.low, 4) \o ToBytesLE(n.high, 4)

FragmentEntries == 3

\* fragment index lengths: none, a few entries, and 2^32 bytes more than that
FragmentLengths ==
    {Halves(0, 0), Halves(0, NUM_BYTES_ABSOLUTE_OFFSET + FragmentEntries * NUM_BYTES_TILE_SIZE),
     Halves(1, NUM_BYTES_ABSOLUTE_OFFSET + FragmentEntries * NUM_BYTES_TILE_SIZE)}

\* the archives that are opened: every magic, version and dialect with a
\* small pyramid, well-formed archives whose pyramid is about as large
\* as the initial chunk, compressed well or not at all, and well-formed
\* archives with a short and with a very long fragment index
HeaderArchives ==
    {[magic |-> m, version |-> v, md |-> md, tiles |-> 3, pyramidLen |-> ZlibOverhead,
      fragmentLen |-> Halves(0, 0)] :
        m \in Magics, v \in Versions, md \in Dialects}
    \cup
    {[magic |-> MAGIC, version |-> VERSION, md |-> WriterMetadata, tiles |-> n,
      pyramidLen |-> ZlibOverhead + k * n * NUM_BYTES_TILE_SIZE,
      fragmentLen |-> Halves(0, 0)] :
        n \in {FitTiles, FitTiles + 1}, k \in 0..1}
    \cup
    {[magic |-> MAGIC, version |-> VERSION, md |-> WriterMetadata, tiles |-> 3,
      pyramidLen |-> ZlibOverhead, fragmentLen |-> n] : n \in FragmentLengths}

\* the archive a: header, metadata and pyramid index. Of an archive with an
\* incompressible pyramid only the header and the metadata are kept, loadHeader
\* decides on nothing else.
InitHeader ==
    /\ \E a \in HeaderArchives :
          /\ metadata = a.md
          /\ tileMatrix = PyramidRow(a.tiles)
          /\ file = a.magic \o ToBytesLE(a.version, 4) \o ToBytesLE(MetaLen, 4)
                       \o ToBytesLE(a.pyramidLen, 4) \o writeBigUint64LE(a.fragmentLen)
                       \o Fill(MetaLen, MetaByte)
                       \o (IF a.pyramidLen = ZlibOverhead
                           THEN CompressedBytes(a.pyramidLen) ELSE <<>>)
          /\ indexPyramidBuffer = <<>>
          /\ compLen = a.pyramidLen
    /\ pyramidMaxZoom = 18
    /\ stream = <<>>
    /\ wpc = "done"
    /\ it = 0
    /\ dataSectionOffset = 0
    /\ previousFragmentIndex = -1
    /\ previousIndex = 0
    /\ indexFragmentLength = 0
    /\ wlog = <<>>
    /\ lookup = NoLookup
    /\ ReaderInit

\* ComtCache.create(comtUrl) with HeaderFetchStrategy.PREFETCH: the initial
\* chunk is fetched, loadHeader runs on it, the constructor calls initIndex
CreateWith(h) ==
    /\ lookup' = [zoom |-> -1, op |-> "create", throws |-> h.throws]
    /\ header' = IF h.throws THEN header ELSE h
    /\ indexInit' = ~h.throws

Create ==
    /\ wpc = "done"
    /\ lookup = NoLookup
    /\ CreateWith(loadHeader(RangeBody(0, INITIAL_CHUNK_SIZE - 1)))
    /\ UNCHANGED wvars
    /\ UNCHANGED <<headerLoaded, requestCache, fragmentedIndex, calls, net, jobs, batched>>

\* new ComtIndex(metadata) on the metadata of the archive
NewComtIndex ==
    /\ wpc = "done"
    /\ lookup = NoLookup
    /\ lookup' = [zoom |-> -1, op |-> "ComtIndex", throws |-> ComtIndexThrows(metadata)]
    /\ UNCHANGED wvars
    /\ UNCHANGED rvars

(* ------------------------------------------------------------------ *)
(* The fragment loop at data offsets around 2^40                      *)
(* ------------------------------------------------------------------ *)
\* Numbers of that size are kept in two limbs: hi * 2^24 + lo
Limb == 2 ^ 24

Wide(h, l) == [hi |-> h, lo |-> l]

\* w + n for 0 <= n < 2^24
WideAdd(w, n) == Wide(w.hi + ((w.lo + n) \div Limb), (w.lo + n) % Limb)

\* the number fits into NUM_BYTES_ABSOLUTE_OFFSET = 5 bytes
FitsUInt40(w) == w.hi < 2 ^ 16

\* the five low bytes of w, little-endian
WideToBytesLE(w) == ToBytesLE(w.lo, 3) \o ToBytesLE(w.hi % (2 ^ 16), 2)

\* toBytesLE(dataSectionOffset, 5): the bytes of a number that fits; for a
\* number that does not fit it throws or keeps the five low bytes
toBytesLEOutcomes(w) ==
    IF FitsUInt40(w) THEN {[throws |-> FALSE, bytes |-> WideToBytesLE(w)]}
    ELSE {[throws |-> TRUE, bytes |-> <<>>], [throws |-> FALSE, bytes |-> WideToBytesLE(w)]}

\* convertUInt40LEToNumber(buffer, offset) as a two-limb number
convertUInt40LEToWide(buffer, offset) ==
    Wide(buffer[offset + 4] + buffer[offset + 5] * 256,
         convertUInt24LEToNumber(buffer, offset))

\* the records of the fragmented zoom the writer has consumed before
Consumed == 2 ^ 20

WindowLen == 6

\* pyramid zoom 0 and zoom 21 with one row of fragments
OffsetMatrix ==
    <<TM(0, -1, Limits(0, 0, 0, 0)),
      TM(21, Coeff, Limits(0, 0, 2 ^ 21 - 1, 2 ^ Coeff - 1))>>

\* record number j (from 0) of zoom 21 in the row-major stream
WindowRecord(j, size) ==
    LET side == 2 ^ Coeff
        cell == j \div (side * side)
        within == j % (side * side)
    IN  [zoom |-> 21, column |-> cell * side + (within % side), row |-> within \div side,
         size |-> size, fragmentIndex |-> cell]

\* 2^40 - dataSectionOffset when the window starts
OffsetGaps == {1, 2, MAX_TILE_SIZE + 1}

WindowSizes == [1..WindowLen -> {0, 1, MAX_TILE_SIZE}]

\* writeIndex in its fragment loop: the pyramid tile and 2^20 records of zoom
\* 21 are consumed, their sizes sum to 2^40 - gap (each is at most 2^20 - 1).
\* stream, file and wlog hold the records and bytes from here on.
InitOffset ==
    /\ metadata = WriterMetadata
    /\ tileMatrix = OffsetMatrix
    /\ pyramidMaxZoom = 0
    /\ \E sizes \in WindowSizes :
          stream = [i \in 1..WindowLen |-> WindowRecord(Consumed + i - 1, sizes[i])]
    /\ \E gap \in OffsetGaps : dataSectionOffset = Wide(2 ^ 16 - 1, Limb - gap)
    /\ wpc = "fragments"
    /\ it = 0
    /\ file = <<>>
    /\ indexPyramidBuffer = Zeros(NUM_BYTES_TILE_SIZE)
    /\ compLen = ZlibOverhead
    /\ previousFragmentIndex = (Consumed \div ((2 ^ Coeff) * (2 ^ Coeff))) - 1
    /\ previousIndex = Consumed
    /\ indexFragmentLength =
          NUM_BYTES_ABSOLUTE_OFFSET * (Consumed \div ((2 ^ Coeff) * (2 ^ Coeff)))
          + NUM_BYTES_TILE_SIZE * Consumed
    /\ wlog = <<>>
    /\ lookup = NoLookup
    /\ ReaderInit

\* the pass of the fragment loop for the record tile, whose index is current
\* and whose offset prefix, if it starts a fragment, is the outcome prefix
WriteFragmentRecordWith(tile, current, newFragment, prefix) ==
    IF validateTileSizeThrows(tile.size) \/ current.throws \/ prefix.throws
    THEN /\ wpc' = "error"
         /\ UNCHANGED <<it, file, dataSectionOffset, previousFragmentIndex,
                        previousIndex, indexFragmentLength, wlog>>
    ELSE /\ file' = file \o prefix.bytes
                         \o (IF padding(current.index, previousIndex) > 0
                             THEN Zeros((padding(current.index, previousIndex)) * NUM_BYTES_TILE_SIZE)
                             ELSE <<>>)
                         \o ToBytesLE(tile.size, NUM_BYTES_TILE_SIZE)
         /\ indexFragmentLength' =
               indexFragmentLength + Len(prefix.bytes)
               + (IF padding(current.index, previousIndex) > 0
                  THEN (padding(current.index, previousIndex)) * NUM_BYTES_TILE_SIZE ELSE 0)
               + NUM_BYTES_TILE_SIZE
         /\ dataSectionOffset' = WideAdd(dataSectionOffset, tile.size)
         /\ previousFragmentIndex' = tile.fragmentIndex
         /\ previousIndex' = current.index
         /\ it' = it + 1
         /\ wlog' = Append(wlog,
               [k |-> it + 1, section |-> "fragment", dataOff |-> dataSectionOffset,
                entryAt |-> Len(file') - NUM_BYTES_TILE_SIZE,
                prefixAt |-> IF newFragment THEN Len(file) ELSE -1,
                padding |-> IF padding(current.index, previousIndex) > 0
                            THEN padding(current.index, previousIndex) ELSE 0])
         /\ wpc' = wpc

\* one pass of the fragment loop of writeIndex, offsets in two limbs
WriteFragmentRecordWide ==
    /\ wpc = "fragments"
    /\ it < Len(stream)
    /\ \E prefix \in (IF stream[it + 1].fragmentIndex > previousFragmentIndex
                      THEN toBytesLEOutcomes(dataSectionOffset)
                      ELSE {[throws |-> FALSE, bytes |-> <<>>]}) :
          WriteFragmentRecordWith(stream[it + 1],
              calculateIndexOffsetForTile(stream[it + 1].zoom, stream[it + 1].column,
                                          stream[it + 1].row),
              stream[it + 1].fragmentIndex > previousFragmentIndex, prefix)
    /\ UNCHANGED <<metadata, tileMatrix, pyramidMaxZoom, stream, indexPyramidBuffer, compLen, lookup>>
    /\ UNCHANGED rvars

vars == <<metadata, tileMatrix, pyramidMaxZoom, stream, wpc, it, file, indexPyramidBuffer,
          compLen, dataSectionOffset, previousFragmentIndex, previousIndex,
          indexFragmentLength, wlog, lookup, header, headerLoaded, indexInit,
          requestCache, fragmentedIndex, calls, net, jobs, batched>>

Next == Writer \/ Lookup

Spec == Init /\ [][Next]_vars

NextReader == Writer \/ Reader

SpecReader == InitReader /\ [][NextReader]_vars

NextHeader == Create \/ NewComtIndex

SpecHeader == InitHeader /\ [][NextHeader]_vars

NextOffset == WriteFragmentRecordWide

SpecOffset == InitOffset /\ [][NextOffset]_vars

(* ------------------------------------------------------------------ *)
(* Properties                                                         *)
(* ------------------------------------------------------------------ *)
\* position (from 1) in the stream of the record of tile (z, x, y), 0 if none
RecordOf(z, x, y) ==
    LET ks == {k \in 1..Len(stream) :
                  stream[k].zoom = z /\ stream[k].column = x /\ stream[k].row = y}
    IN  IF ks = {} THEN 0 ELSE CHOOSE k \in ks : TRUE

\* archive position of the 5-byte prefix the writer wrote for fragment f
PrefixPosition(f) ==
    LET ks == {k \in 1..Len(wlog) : stream[k].fragmentIndex = f /\ wlog[k].prefixAt >= 0}
    IN  IF ks = {} THEN -1 ELSE wlog[CHOOSE k \in ks : TRUE].prefixAt

FullStream == Len(stream) = Cardinality(AllTiles(tileMatrix))

LookedUpInRange ==
    /\ lookup # NoLookup
    /\ inRange(lookup.x, lookup.y, MatrixOfZoom(tileMatrix, lookup.zoom).tileMatrixLimits)

LookedUpFragmented ==
    /\ LookedUpInRange
    /\ IsFragmented(MatrixOfZoom(tileMatrix, lookup.zoom))

\* C2 (fragment position agreement): in an archive written from a stream with
\* every tile of every zoom, getFragmentRangeForTile of an in-range tile of a
\* fragmented zoom starts at the archive position where the writer wrote the
\* 5-byte offset prefix of the tile's fragment.
C2_FragmentPositionAgreement ==
    (LookedUpFragmented /\ FullStream)
    => /\ ~lookup.range.throws
       /\ lookup.range.startOffset =
             PrefixPosition(stream[RecordOf(lookup.zoom, lookup.x, lookup.y)].fragmentIndex)

\* the tiles of the looked-up zoom that share the fragment cell of the
\* looked-up tile
CellMates ==
    LET tm == MatrixOfZoom(tileMatrix, lookup.zoom)
        F == FragSide(tm)
    IN  {t \in TilesOf(tm) : /\ t.column \div F = lookup.x \div F
                             /\ t.row \div F = lookup.y \div F}

\* C3 (fragment locality): two in-range tiles of a fragmented zoom with the
\* same floor(x/F) and floor(y/F) get the same startOffset and endOffset from
\* getFragmentRangeForTile, whether the limits are aligned to F or not.
C3_FragmentLocality ==
    LookedUpFragmented
    => \A t \in CellMates :
          LET other == getFragmentRangeForTile(t.zoom, t.column, t.row,
                                               METADATA_OFFSET_INDEX + MetaLen, compLen)
          IN  /\ other.throws = lookup.range.throws
              /\ other.startOffset = lookup.range.startOffset
              /\ other.endOffset = lookup.range.endOffset

(* --- properties of the reader --- *)
Callers == 1..NCalls

Requests == 1..Len(net)

TmsY(c) == (2 ^ calls[c].xyz.z) - calls[c].xyz.y - 1

\* the call asks for a zoom of the tile matrix set
KnownZoom(c) == calls[c].xyz.z + 1 <= Len(tileMatrix)

InLimits(c) ==
    /\ KnownZoom(c)
    /\ inRange(calls[c].xyz.x, TmsY(c), tileMatrix[calls[c].xyz.z + 1].tileMatrixLimits)

OutOfLimits(c) ==
    /\ KnownZoom(c)
    /\ ~inRange(calls[c].xyz.x, TmsY(c), tileMatrix[calls[c].xyz.z + 1].tileMatrixLimits)

\* getIndexEntry of the call has produced an index entry
Resolved(c) == calls[c].entry.kind = "entry"

\* the call has left the header bootstrap without a header failure
PastHeader(c) ==
    /\ calls[c].pc \notin {"idle", "awaitHeaderFirst", "awaitHeader"}
    /\ ~(calls[c].pc = "thrown" /\ calls[c].error = "header")

WaitsForFragment(c) == calls[c].pc \in {"awaitFragmentOwner", "awaitFragmentShared"}

InFlight(r) == net[r].state \in {"fetching", "body"}

WaitersOf(r) == {net[r].waiters[i] : i \in 1..Len(net[r].waiters)}

DataRequestsOf(c) == {r \in Requests : net[r].kind = "data" /\ c \in WaitersOf(r)}

FragmentRequestsOf(c) == {r \in Requests : net[r].kind = "fragment" /\ c \in WaitersOf(r)}

BatchedOf(c) == {i \in 1..Len(batched) : batched[i].call = c}

DataSectionStart == METADATA_OFFSET_INDEX + MetaLen + compLen + indexFragmentLength

\* C1 (offset agreement): for every in-range tile with a record in the stream,
\* the absolute tile offset the reader resolves is the start of the data
\* section plus the writer's dataSectionOffset when it processed the tile, and
\* the decoded size is the size the writer recorded.
C1_OffsetAgreement ==
    \A c \in Callers :
        (Resolved(c) /\ InLimits(c)
         /\ RecordOf(calls[c].xyz.z, calls[c].xyz.x, TmsY(c)) # 0)
        => LET k == RecordOf(calls[c].xyz.z, calls[c].xyz.x, TmsY(c))
           IN  /\ calls[c].absoluteTileOffset = DataSectionStart + wlog[k].dataOff
               /\ calls[c].entry.size = stream[k].size

SameFragmentCell(c, d) ==
    /\ InLimits(c) /\ InLimits(d)
    /\ calls[c].xyz.z = calls[d].xyz.z
    /\ IsFragmented(tileMatrix[calls[c].xyz.z + 1])
    /\ LET F == FragSide(tileMatrix[calls[c].xyz.z + 1])
       IN  /\ calls[c].xyz.x \div F = calls[d].xyz.x \div F
           /\ TmsY(c) \div F = TmsY(d) \div F

\* C4 (fetch deduplication): getTile calls that wait at the same time for the
\* index fragment of tiles of one fragment cell wait on one range request, and
\* no two fragment requests with the same start offset are in flight at once.
C4_FetchDeduplication ==
    /\ \A c, d \in Callers :
          (WaitsForFragment(c) /\ WaitsForFragment(d) /\ SameFragmentCell(c, d)
           /\ calls[c].api = "getTile" /\ calls[d].api = "getTile")
          => calls[c].req = calls[d].req
    /\ \A r1, r2 \in Requests :
          (r1 # r2 /\ net[r1].kind = "fragment" /\ net[r2].kind = "fragment"
           /\ InFlight(r1) /\ InFlight(r2))
          => net[r1].first # net[r2].first

\* C5 (shared-fetch cancellation): a fragment request is aborted only when
\* every call waiting on it has cancelled.
C5_SharedFetchCancellation ==
    \A r \in Requests :
        (net[r].kind = "fragment" /\ net[r].state = "aborted")
        => \A w \in WaitersOf(r) : calls[w].cancelled

\* C6 (pending entry lifetime): whenever no continuation is pending, every
\* entry of requestCache belongs to a request still in flight, and every call
\* waiting for a fragment waits on a request still in flight, so a call for a
\* fragment whose earlier fetch settled has issued a new request.
C6_PendingEntryLifetime ==
    Quiet
    => /\ \A e \in requestCache : InFlight(e.req) /\ net[e.req].first = e.key
       /\ \A c \in Callers : WaitsForFragment(c) => InFlight(calls[c].req)

\* a fragment fetch was aborted by cancellation, its entry is gone, and a later
\* call for the same fragment waits on a new request
C6_Witness ==
    /\ Quiet
    /\ \E r1, r2 \in Requests :
          /\ r1 < r2
          /\ net[r1].kind = "fragment" /\ net[r2].kind = "fragment"
          /\ net[r1].first = net[r2].first
          /\ net[r1].state = "aborted"
          /\ InFlight(r2)
          /\ requestCache = {[key |-> net[r2].first, req |-> r2]}

\* C7 (no negative caching): the fragment LRU only holds fragments whose fetch
\* succeeded, and a call that reports a header failure waited on the header
\* request that failed (a call started after the failure fetches again).
C7_NoNegativeCaching ==
    /\ \A i \in 1..Len(fragmentedIndex) :
          \E r \in Requests : /\ net[r].kind = "fragment"
                              /\ net[r].first = fragmentedIndex[i].key
                              /\ net[r].state = "ok"
    /\ \A c \in Callers :
          (calls[c].pc = "thrown" /\ calls[c].error = "header")
          => c \in WaitersOf(calls[c].req)

\* C8 (header bootstrap is shared): there is at most one header request, and a
\* call is past the header bootstrap only with header, indexCache and
\* comtIndex initialised.
C8_HeaderBootstrapShared ==
    /\ Cardinality({r \in Requests : net[r].kind = "header"}) <= 1
    /\ \A c \in Callers :
          /\ calls[c].pc \in {"awaitHeaderFirst", "awaitHeader"}
                => net[calls[c].req].kind = "header"
          /\ PastHeader(c) => header.loaded /\ indexInit
          /\ calls[c].error \notin {"TypeError: header is undefined",
                                    "TypeError: indexCache is undefined"}

\* all calls were started before the header loaded, shared one header
\* request, and are past the bootstrap
C8_Witness ==
    /\ Len(net) >= 1
    /\ net[1].kind = "header"
    /\ WaitersOf(1) = Callers
    /\ \A c \in Callers : PastHeader(c)
    /\ header.loaded /\ indexInit

\* C9 (out-of-range requests are empty): a call past the header bootstrap for
\* an address outside the limits of its zoom has returned empty bytes; no
\* fragment or data request was issued for it and nothing was handed to the
\* batch dispatcher.
C9_OutOfRangeEmpty ==
    \A c \in Callers :
        (PastHeader(c) /\ OutOfLimits(c))
        => /\ calls[c].pc = "returnedEmpty"
           /\ FragmentRequestsOf(c) = {}
           /\ DataRequestsOf(c) = {}
           /\ BatchedOf(c) = {}

\* both APIs have answered an out-of-range address
C9_Witness ==
    \E c, d \in Callers :
        /\ OutOfLimits(c) /\ OutOfLimits(d)
        /\ calls[c].api = "getTile" /\ calls[d].api = "getTileWithBatchRequest"
        /\ calls[c].pc = "returnedEmpty" /\ calls[d].pc = "returnedEmpty"

\* C10 (missing tiles): a call whose index entry has size 0 has returned empty
\* bytes, with no data request and nothing handed to the batch dispatcher; for
\* size > 0 exactly one request for [absoluteTileOffset,
\* absoluteTileOffset + size - 1] was issued (getTile) or handed over
\* (getTileWithBatchRequest).
C10_MissingTiles ==
    \A c \in Callers :
        Resolved(c)
        => IF calls[c].entry.size = 0
           THEN /\ calls[c].pc = "returnedEmpty"
                /\ DataRequestsOf(c) = {}
                /\ BatchedOf(c) = {}
           ELSE IF calls[c].api = "getTile"
           THEN /\ Cardinality(DataRequestsOf(c)) = 1
                /\ \A r \in DataRequestsOf(c) :
                      /\ net[r].first = calls[c].absoluteTileOffset
                      /\ net[r].last = calls[c].absoluteTileOffset + calls[c].entry.size - 1
                /\ BatchedOf(c) = {}
           ELSE /\ Cardinality(BatchedOf(c)) = 1
                /\ \A i \in BatchedOf(c) :
                      /\ batched[i].startOffset = calls[c].absoluteTileOffset
                      /\ batched[i].endOffset =
                            calls[c].absoluteTileOffset + calls[c].entry.size - 1
                /\ DataRequestsOf(c) = {}

\* one call resolved a missing tile and returned empty, another resolved a
\* tile with bytes and handed its range to the batch dispatcher
C10_Witness ==
    \E c, d \in Callers :
        /\ Resolved(c) /\ calls[c].entry.size = 0 /\ calls[c].pc = "returnedEmpty"
        /\ Resolved(d) /\ calls[d].entry.size > 0 /\ BatchedOf(d) # {}


(* ------------------------------------------------------------------ *)
(* Opening an archive                                                 *)
(* ------------------------------------------------------------------ *)
Opened(op) == "op" \in DOMAIN lookup /\ lookup.op = op

ArchiveMagic == Slice(file, 0, 4)

ArchiveVersion == ReadU32(file, 4)

\* C11 Header validation: create (loadHeader) fails for every archive whose
\* first four bytes are not "COMT" or whose version field is not 1, and it
\* succeeds on an archive with magic "COMT", version 1 and valid metadata.
C11_HeaderValidation ==
    Opened("create") =>
        /\ (ArchiveMagic # MAGIC \/ ArchiveVersion # 1) => lookup.throws /\ ~header.loaded
        /\ (/\ ArchiveMagic = MAGIC
            /\ ArchiveVersion = 1
            /\ metadata = WriterMetadata
            /\ pyramidIndexEntries(tileMatrix) <= FitTiles) => ~lookup.throws /\ header.loaded


(* ------------------------------------------------------------------ *)
(* Index geometry                                                     *)
(* ------------------------------------------------------------------ *)
Queried == "x" \in DOMAIN lookup

QueriedInRange ==
    Queried /\ inRange(lookup.x, lookup.y, MatrixOfZoom(tileMatrix, lookup.zoom).tileMatrixLimits)

QueriedTile == [zoom |-> lookup.zoom, column |-> lookup.x, row |-> lookup.y]

\* C12 OutOfRange: calculateIndexOffsetForTile and getFragmentRangeForTile both
\* throw for every (x, y) outside the tileMatrixLimits of the zoom, pyramid or
\* fragmented, and neither throws for an address inside the limits.
C12_OutOfRange ==
    Queried =>
        /\ lookup.index.throws <=> ~QueriedInRange
        /\ lookup.range.throws <=> ~QueriedInRange

entriesInFragment ==
    Cardinality({t \in AllTiles(tileMatrix) :
                    CellOf(tileMatrix, t) = CellOf(tileMatrix, QueriedTile)})

\* C14 Fragment range length: for an in-range tile of a fragmented zoom,
\* endOffset - startOffset = 5 + 3 * (number of tiles of its fragment).
C14_FragmentRangeLength ==
    (QueriedInRange /\ IsFragmented(MatrixOfZoom(tileMatrix, lookup.zoom))) =>
        lookup.range.endOffset - lookup.range.startOffset = 5 + 3 * entriesInFragment

\* a fragment cut by the limits: fewer entries than a full fragment
C14_Witness ==
    /\ QueriedInRange
    /\ IsFragmented(MatrixOfZoom(tileMatrix, lookup.zoom))
    /\ entriesInFragment = 2
    /\ lookup.range.endOffset - lookup.range.startOffset = 11


(* ------------------------------------------------------------------ *)
(* The written index                                                  *)
(* ------------------------------------------------------------------ *)
IndexWritten == wpc \in {"tiles", "returned", "unpatched", "done"}

FragmentSectionStart == METADATA_OFFSET_INDEX + MetaLen + compLen

\* number of tiles of fragmented zooms that precede t in the enumeration
FragmentRank(t) ==
    Cardinality({u \in FragmentTiles(tileMatrix) :
                    TileKey(tileMatrix, u) < TileKey(tileMatrix, t)})

\* where the layout has the 3-byte entry of tile t of a fragmented zoom
LayoutEntryAt(t) ==
    FragmentSectionStart
    + NUM_BYTES_ABSOLUTE_OFFSET * (FragmentOrdinal(tileMatrix, CellOf(tileMatrix, t)) + 1)
    + NUM_BYTES_TILE_SIZE * FragmentRank(t)

RecordedSize(t) ==
    IF RecordOf(t.zoom, t.column, t.row) = 0 THEN 0
    ELSE stream[RecordOf(t.zoom, t.column, t.row)].size

\* C15 Fragment index layout: after writeIndex the fragment index holds, for
\* each fragment in row-major fragment order, one 5-byte offset and one 3-byte
\* entry per tile of the fragment's sparse bounds (0 for a tile without a
\* record), and the returned length is 5 * fragments + 3 * tiles.
C15_FragmentIndexLayout ==
    IndexWritten =>
        /\ indexFragmentLength =
              NUM_BYTES_ABSOLUTE_OFFSET * Cardinality(FragmentCells(tileMatrix))
              + NUM_BYTES_TILE_SIZE * Cardinality(FragmentTiles(tileMatrix))
        /\ \A t \in FragmentTiles(tileMatrix) :
              /\ CanRead(file, LayoutEntryAt(t), NUM_BYTES_TILE_SIZE)
              /\ convertUInt24LEToNumber(file, LayoutEntryAt(t)) = RecordedSize(t)


(* ------------------------------------------------------------------ *)
(* The header patch                                                   *)
(* ------------------------------------------------------------------ *)
\* the promise of createComTileArchive is fulfilled
Completed == wpc \in {"returned", "unpatched", "done"}

\* C16 Header back-patch: whenever createComTileArchive has completed, header
\* bytes 12..16 hold the compressed pyramid length and bytes 16..24 the
\* fragment index length, little-endian.
C16_HeaderBackPatch ==
    Completed =>
        /\ Slice(file, 12, 16) = ToBytesLE(compLen, 4)
        /\ Slice(file, 16, 24) = ToBytesLE(indexFragmentLength, 8)


(* ------------------------------------------------------------------ *)
(* The supported dialect                                              *)
(* ------------------------------------------------------------------ *)
OrderingsSupported ==
    /\ metadata.fragmentOrdering \in {Undefined, "RowMajor"}
    /\ metadata.tileOrdering \in {Undefined, "RowMajor"}

\* create gets as far as validateMetadata, and nothing but the dialect is at stake
DialectDecides ==
    /\ Opened("create")
    /\ ArchiveVersion = SUPPORTED_VERSION
    /\ metadata.tileFormat = "pbf"
    /\ pyramidIndexEntries(tileMatrix) <= FitTiles

DialectTested == Opened("ComtIndex") \/ DialectDecides

WebMercatorQuadSpellings == {"WebMercatorQuad", " webmercatorquad "}

C18_PyramidTruncated ==
    (Opened("create") /\ ~lookup.throws) =>
        METADATA_OFFSET_INDEX + ReadU32(file, 8) + ReadU32(file, 12) <= INITIAL_CHUNK_SIZE


(* ------------------------------------------------------------------ *)
(* Tile sizes                                                         *)
(* ------------------------------------------------------------------ *)
TooLarge(k) == stream[k].size > MAX_TILE_SIZE

WritingIndex == wpc \in {"header", "metadata", "pyramid", "fragments", "error"}

PyramidEntriesWritten ==
    {convertUInt24LEToNumber(indexPyramidBuffer, i * NUM_BYTES_TILE_SIZE) :
        i \in 0..((Len(indexPyramidBuffer) \div NUM_BYTES_TILE_SIZE) - 1)}

FragmentEntriesWritten ==
    {convertUInt24LEToNumber(file, wlog[k].entryAt) :
        k \in {j \in 1..Len(wlog) : wlog[j].section = "fragment"}}

\* C19 TileTooLarge: writeIndex never gets past the first record whose size
\* exceeds 2^20 - 1, in the pyramid loop and in the fragment loop, and no
\* 3-byte entry above 2^20 - 1 is written to the pyramid buffer or the stream.
C19_TileTooLarge ==
    /\ \A k \in 1..Len(stream) : TooLarge(k) => (WritingIndex /\ it < k)
    /\ wpc = "error" => (it < Len(stream) => TooLarge(it + 1))
    /\ \A e \in PyramidEntriesWritten \cup FragmentEntriesWritten : e <= MAX_TILE_SIZE

\* the fragment loop has aborted at a record that is too large, after it had
\* written entries of smaller records
C19_Witness ==
    /\ wpc = "error"
    /\ it > numIndexEntriesPyramid
    /\ it < Len(stream)
    /\ TooLarge(it + 1)
    /\ wlog[it].section = "fragment"


(* ------------------------------------------------------------------ *)
(* Data offsets around 2^40                                           *)
(* ------------------------------------------------------------------ *)
\* the prefixes written in the window decode to the offset at which they were written
PrefixesExact ==
    \A k \in 1..Len(wlog) :
        wlog[k].prefixAt >= 0 =>
            convertUInt40LEToWide(file, wlog[k].prefixAt) = wlog[k].dataOff

\* C20 OffsetOverflow: the writer has aborted as soon as the cumulative
\* dataSectionOffset has reached 2^40, and every 5-byte offset prefix it has
\* written decodes to the cumulative offset at which it was written.
C20_OffsetOverflow ==
    /\ ~FitsUInt40(dataSectionOffset) => wpc = "error"
    /\ PrefixesExact


(* ------------------------------------------------------------------ *)
(* Decoding from a cached fragment                                    *)
(* ------------------------------------------------------------------ *)
CalledTile(c) == [zoom |-> calls[c].xyz.z, column |-> calls[c].xyz.x, row |-> TmsY(c)]

\* the start offset under which the fragment of the call's tile is cached
FragmentKeyOf(c) ==
    getFragmentRangeForTile(calls[c].xyz.z, calls[c].xyz.x, TmsY(c),
                            header.indexOffset, header.pyramidIndexLength).startOffset

\* the call resolved an in-range tile of a fragmented zoom from a cached fragment
DecodedFromFragment(c) ==
    /\ Resolved(c)
    /\ InLimits(c)
    /\ IsFragmented(tileMatrix[calls[c].xyz.z + 1])
    /\ header.loaded
    /\ LruHas(fragmentedIndex, FragmentKeyOf(c))

CachedFragmentOf(c) == fragmentedIndex[LruPos(fragmentedIndex, FragmentKeyOf(c))].value.indexEntries

\* row-major position of the tile inside the sparse bounds of its fragment
LocalIdx(t) ==
    Cardinality({u \in AllTiles(tileMatrix) :
                    /\ CellOf(tileMatrix, u) = CellOf(tileMatrix, t)
                    /\ TileKey(tileMatrix, u) < TileKey(tileMatrix, t)})

\* C21 Fragment decode position: for every in-range tile of a cached fragment
\* IndexCache.get decodes the size from the fragment entry at localIdx and the
\* offset as the fragment's 5-byte offset plus the localIdx preceding entries.
C21_FragmentDecodePosition ==
    \A c \in Callers :
        DecodedFromFragment(c) =>
            /\ CanRead(CachedFragmentOf(c), 5 + 3 * LocalIdx(CalledTile(c)), 3)
            /\ calls[c].entry.size =
                  convertUInt24LEToNumber(CachedFragmentOf(c), 5 + 3 * LocalIdx(CalledTile(c)))
            /\ calls[c].entry.offset =
                  convertUInt40LEToNumber(CachedFragmentOf(c), 0)
                  + SumEntries(CachedFragmentOf(c), 5, LocalIdx(CalledTile(c)))


(* ------------------------------------------------------------------ *)
(* Pyramid zooms and fragmented zooms in the reader                   *)
(* ------------------------------------------------------------------ *)
InPyramidZoom(c) ==
    /\ InLimits(c)
    /\ tileMatrix[calls[c].xyz.z + 1].aggregationCoefficient = -1

\* C22 Pyramid versus fragment resolution: every in-range tile of a pyramid
\* zoom is resolved from the decompressed pyramid buffer, without a fragment
\* range request, whatever the compressed length of the pyramid is.
C22_PyramidResolution ==
    \A c \in Callers :
        (InPyramidZoom(c) /\ PastHeader(c)) =>
            /\ FragmentRequestsOf(c) = {}
            /\ ~WaitsForFragment(c)
            /\ calls[c].pc # "thrown"


(* ------------------------------------------------------------------ *)
(* Fragment starts                                                    *)
(* ------------------------------------------------------------------ *)
QueriedFragmented == QueriedInRange /\ IsFragmented(MatrixOfZoom(tileMatrix, lookup.zoom))

\* the fragment cells of the queried zoom that come before the queried tile's
\* cell: those in lower fragment rows and those to the left in the same row
CellsBeforeQueried ==
    {c \in FragmentCells(tileMatrix) :
        /\ c[1] = lookup.zoom
        /\ CellKey(c) < CellKey(CellOf(tileMatrix, QueriedTile))}

\* the tiles of the queried zoom in the fragment that follows the queried one
NextFragmentTiles ==
    {t \in TilesOf(MatrixOfZoom(tileMatrix, lookup.zoom)) :
        FragmentOrdinal(tileMatrix, CellOf(tileMatrix, t))
            = FragmentOrdinal(tileMatrix, CellOf(tileMatrix, QueriedTile)) + 1}

\* C23 Fragment starts tile the section: numFragmentsBefore counts the
\* fragment cells before the target's cell; the first fragment of the lowest
\* fragmented zoom starts at indexOffset + pyramidLength, and the fragment
\* that follows a fragment in its zoom starts 5 + 3 * (entry count) later.
C23_FragmentStarts ==
    QueriedFragmented =>
        /\ calculateNumberOfFragmentsBefore(lookup.x, lookup.y,
               MatrixOfZoom(tileMatrix, lookup.zoom).tileMatrixLimits,
               MatrixOfZoom(tileMatrix, lookup.zoom).aggregationCoefficient) - 1
             = Cardinality(CellsBeforeQueried)
        /\ FragmentOrdinal(tileMatrix, CellOf(tileMatrix, QueriedTile)) = 0
             => lookup.range.startOffset = FragmentSectionStart
        /\ \A t \in NextFragmentTiles :
              getFragmentRangeForTile(t.zoom, t.column, t.row,
                                      METADATA_OFFSET_INDEX + MetaLen, compLen).startOffset
                = lookup.range.startOffset + 5 + 3 * entriesInFragment


(* ------------------------------------------------------------------ *)
(* Padding of the fragment index                                      *)
(* ------------------------------------------------------------------ *)
FragmentRecords == {j \in 1..Len(wlog) : wlog[j].section = "fragment"}

\* the index that calculateIndexOffsetForTile gives the tile of a written record
IndexOfRecord(j) ==
    calculateIndexOffsetForTile(stream[wlog[j].k].zoom, stream[wlog[j].k].column,
                                stream[wlog[j].k].row).index

\* the zero bytes the writer put between the offset prefix (if any) and the entry
ZerosBefore(j) ==
    /\ wlog[j].entryAt - NUM_BYTES_TILE_SIZE * wlog[j].padding >= 0
    /\ wlog[j].entryAt <= Len(file)
    /\ \A b \in (wlog[j].entryAt - NUM_BYTES_TILE_SIZE * wlog[j].padding + 1)..wlog[j].entryAt :
          file[b] = 0

\* C24 First-tile padding: the zero entries written before the entry of the
\* first tile of the fragment section number (index of that tile) - (number of
\* pyramid index entries), whatever the compressed length of the pyramid is.
C24_FirstTilePadding ==
    \A j \in FragmentRecords :
        (\A i \in FragmentRecords : j <= i) =>
            /\ wlog[j].padding = IndexOfRecord(j) - numIndexEntriesPyramid
            /\ ZerosBefore(j)


\* two records written one after the other by the fragment loop
ConsecutiveFragmentRecords ==
    {j \in FragmentRecords : j + 1 \in FragmentRecords}

\* the index slots between the tiles of record j and of the record after it
GapAfter(j) == IndexOfRecord(j + 1) - IndexOfRecord(j) - 1

HeaderFragmentLen == Halves(ReadU32(file, 20), ReadU32(file, 16))

\* n + h for a small number n, no carry out of the low half
HalvesPlus(n, h) == Halves(h.high, h.low + n)

\* C26 Data section start: the dataOffset of loadHeader is
\* 24 + metaLen + pyramidLen + fragmentLen, fragmentLen being the whole 64-bit
\* number in header bytes 16..24, also when it is 2^32 or more.
C26_DataSectionStart ==
    (Opened("create") /\ ~lookup.throws) =>
        Halves(0, header.dataOffset) =
            HalvesPlus(METADATA_OFFSET_INDEX + ReadU32(file, 8) + ReadU32(file, 12),
                       HeaderFragmentLen)


(* ------------------------------------------------------------------ *)
(* The bit-aligned encoding of an index fragment                      *)
(* ------------------------------------------------------------------ *)
\* fragmentSettings of the provider package
indexOffsetBitWidth == 40
indexOffsetByteWidth == 5
indexEntryBitWidth == 20
bitAlignedMaxTileSize == 2 ^ 20 - 1

\* a | b on bytes
RECURSIVE BitOr(_, _)
BitOr(a, b) ==
    IF a = 0 THEN b
    ELSE IF b = 0 THEN a
    ELSE (IF a % 2 = 1 \/ b % 2 = 1 THEN 1 ELSE 0) + 2 * BitOr(a \div 2, b \div 2)

\* Buffer.writeUint8(value, offset) on the buffer of acc: a RangeError for a
\* value that is no byte and for an offset outside the buffer
writeUint8(acc, value, offset) ==
    IF acc.throws \/ value < 0 \/ value > 255 \/ offset < 0 \/ offset >= Len(acc.buffer)
    THEN [acc EXCEPT !.throws = TRUE]
    ELSE [acc EXCEPT !.buffer[offset + 1] = value]

\* the body of the loop of encodeIndexFragmentBitAligned for one tile size
EncodeEntry(acc, tileSize) ==
    LET byteStartIndex == acc.bitCounter \div 8
        bitOffset == acc.bitCounter % 8
        written ==
            IF tileSize > bitAlignedMaxTileSize
            THEN [acc EXCEPT !.throws = TRUE]
            ELSE IF bitOffset = 0
            THEN writeUint8(
                    writeUint8(
                        writeUint8(acc,
                                   BitOr(acc.buffer[byteStartIndex + 1], (tileSize * 16) % 256),
                                   byteStartIndex),
                        (tileSize \div 16) % 256, byteStartIndex + 1),
                    tileSize \div 4096, byteStartIndex + 2)
            ELSE writeUint8(
                    writeUint8(
                        writeUint8(acc, tileSize % 256, byteStartIndex),
                        (tileSize \div 256) % 256, byteStartIndex + 1),
                    tileSize \div 65536, byteStartIndex + 2)
    IN  [written EXCEPT !.bitCounter = acc.bitCounter + indexEntryBitWidth]

RECURSIVE EncodeLoop(_, _)
EncodeLoop(tileSizes, acc) ==
    IF tileSizes = <<>> \/ acc.throws THEN acc
    ELSE EncodeLoop(Tail(tileSizes), EncodeEntry(acc, Head(tileSizes)))

encodeIndexFragmentBitAligned(absoluteOffset, tileSizes) ==
    LET indexFragmentBitLength == indexOffsetBitWidth + Len(tileSizes) * indexEntryBitWidth
        indexFragmentByteLength == (indexFragmentBitLength + 7) \div 8
        indexFragmentBuffer ==
            CopyInto(Zeros(indexFragmentByteLength),
                     ToBytesLE(absoluteOffset, indexOffsetByteWidth), 0)
    IN  EncodeLoop(tileSizes, [throws |-> FALSE, buffer |-> indexFragmentBuffer,
                               bitCounter |-> indexOffsetBitWidth])

MaxSizes == 3

\* tile sizes around the byte and nibble borders of a 20-bit field
SampleSizes == {0, 1, 2 ^ 12 - 1, 2 ^ 12, bitAlignedMaxTileSize, bitAlignedMaxTileSize + 1}

SizeLists == UNION {[1..n -> SampleSizes] : n \in 0..MaxSizes}

SampleOffsets == {0, 2 ^ 8 + 4}

InitEncode ==
    /\ metadata = WriterMetadata
    /\ tileMatrix = OffsetMatrix
    /\ pyramidMaxZoom = 0
    /\ stream = <<>>
    /\ dataSectionOffset = 0
    /\ wpc = "done"
    /\ it = 0
    /\ file = <<>>
    /\ indexPyramidBuffer = <<>>
    /\ compLen = ZlibOverhead
    /\ previousFragmentIndex = -1
    /\ previousIndex = 0
    /\ indexFragmentLength = 0
    /\ wlog = <<>>
    /\ \E o \in SampleOffsets, sizes \in SizeLists :
          lookup = [zoom |-> -1, op |-> "tileSizes", absoluteOffset |-> o,
                    tileSizes |-> sizes]
    /\ ReaderInit

\* one call of encodeIndexFragmentBitAligned
EncodeIndexFragment ==
    /\ Opened("tileSizes")
    /\ LET r == encodeIndexFragmentBitAligned(lookup.absoluteOffset, lookup.tileSizes)
       IN  lookup' = [zoom |-> -1, op |-> "encodeIndexFragmentBitAligned",
                      absoluteOffset |-> lookup.absoluteOffset,
                      tileSizes |-> lookup.tileSizes,
                      throws |-> r.throws,
                      buffer |-> IF r.throws THEN <<>> ELSE r.buffer]
    /\ UNCHANGED wvars
    /\ UNCHANGED rvars

NextEncode == EncodeIndexFragment

SpecEncode == InitEncode /\ [][NextEncode]_vars

AllFit(sizes) == \A i \in 1..Len(sizes) : sizes[i] <= 2 ^ 20 - 1

\* C27 Bit-aligned fragment encoding: encodeIndexFragmentBitAligned raises an
\* error exactly for a size above 2^20 - 1; otherwise it returns
\* ceil((40 + 20 n) / 8) bytes that start with the 40-bit little-endian offset,
\* and no other list of n sizes encodes to the same bytes.
C27_BitAlignedEncoding ==
    Opened("encodeIndexFragmentBitAligned") =>
        /\ lookup.throws <=> ~AllFit(lookup.tileSizes)
        /\ ~lookup.throws =>
              /\ Len(lookup.buffer) = (40 + 20 * Len(lookup.tileSizes) + 7) \div 8
              /\ Slice(lookup.buffer, 0, 5) = ToBytesLE(lookup.absoluteOffset, 5)
              /\ \A other \in SizeLists :
                    (/\ Len(other) = Len(lookup.tileSizes)
                     /\ AllFit(other)
                     /\ other # lookup.tileSizes)
                    => encodeIndexFragmentBitAligned(lookup.absoluteOffset, other).buffer
                          # lookup.buffer

====
